---- MODULE Spec2Model ----
(***************************************************************************)
(* Model of the weni-tools-utils product search toolkit: the one-shot      *)
(* plugins (CAPI, WeniFlowTrigger), the StockManager, the Regionalization  *)
(* plugin, the calls of VTEXClient (construction, cart_simulation,         *)
(* batch_simulation, get_orders_by_document), the default hooks of         *)
(* PluginBase and the hook dispatch of ProductConcierge.search.            *)
(*                                                                         *)
(* Python values are modelled as follows.  A str is a sequence of          *)
(* one-character strings, so that lower() and the `in` substring test are  *)
(* computed; None is the value NoneVal, which is no str.  A dict whose     *)
(* iteration order matters is a sequence of entries.                       *)
(***************************************************************************)
EXTENDS Integers, Sequences, FiniteSets, TLC

VARIABLES
    capi_cfg,       \* CAPI constructor arguments: auto_send, only_whatsapp, event_type
    capi_sent,      \* CAPI._sent
    capi_log,       \* observation: the CAPI calls made so far, oldest first
    capi_result,    \* the mapping returned by the last CAPI.finalize_result
    flow_cfg,       \* WeniFlowTrigger constructor arguments: trigger_once, flow_uuid
    flow_triggered, \* WeniFlowTrigger._triggered
    flow_log,       \* observation: the WeniFlowTrigger calls made so far
    st_pc,          \* stock stage: "start", "batch", "checked" or "filtered"
    st_products,    \* products_structured: the products of the search, in dict order
    st_input,       \* observation: products_structured as the search produced it
    st_context,     \* SearchContext: quantity, sellers, postal_code
    st_strategy,    \* observation: the check_availability function the stage used
    st_sim,         \* the value client.cart_simulation returned, NoSim before the call
    st_priority,    \* priority_categories of check_availability_with_sellers
    st_calls,       \* observation: its batch_simulation calls, with what each returned
    st_details,     \* products_details of check_availability_with_sellers
    st_k,           \* position of its loop over products_details
    st_stock,       \* products_with_stock
    st_filtered,    \* the value filter_products_with_stock returned
    lp_pc,          \* limit_payload_size: "start", "loop" or "done"
    lp_products,    \* its argument products, in dict order
    lp_max_size_kb, \* its argument max_size_kb
    lp_list,        \* product_list
    lp_bytes,       \* len(json_data.encode("utf-8")), of which size_kb is the 1024th
    lp_result,      \* the mapping it returns
    rg_pc,          \* Regionalization.before_search: "start" or "done"
    rg_plugin,      \* the plugin: default_seller and the constructor's seller_rules
    rg_context,     \* SearchContext: postal_code, delivery_type, seller_rules,
                    \* region_id, region_error, sellers
    rg_region,      \* observation: what client.get_region returned, NoRegion before
    bs_pc,          \* VTEXClient.batch_simulation: "start" or "done"
    bs_args,        \* its arguments: sku_id, quantity, sellers, the two maxima
    bs_items,       \* the items of the request it posts
    bs_response,    \* observation: what the remote service answered, NoResponse before
    bs_return,      \* the value it returns
    cs_pc,          \* VTEXClient.cart_simulation: "start" or "done"
    cs_args,        \* its arguments: items, country, postal_code
    cs_payload,     \* the payload of the request it posts
    cs_response,    \* observation: what the remote service answered, NoResponse before
    cs_return,      \* the value it returns
    od_pc,          \* VTEXClient.get_orders_by_document: "start" or "done"
    od_args,        \* its arguments: document, incomplete_orders
    od_requests,    \* observation: the requests it issued, with what each was answered
    od_return,      \* the value it returns
    vc_pc,          \* VTEXClient(...): "start", "built" or "raised" (ValueError)
    vc_args,        \* its arguments: base_url, store_url
    vc_client,      \* the client object, NoClient when none exists
    hk_pc,          \* a hook of PluginBase: "start" or "done"
    hk_call,        \* the call: hook, its first argument, the context
    hk_after,       \* the object returned, and the two arguments after the call
    pl_pc,          \* ProductConcierge.search: the step it is at, PipelineDone at the end
    pl_plugins,     \* the registered plugins, in registration order
    pl_i,           \* position of the next plugin of the stage
    pl_input,       \* the value the stage started with
    pl_value,       \* the value the last hook or step returned
    pl_log,         \* observation: the hook invocations of the run
    ws_cache,       \* Wholesale._cache
    ws_log,         \* observation: the lookups and clear_cache calls of the instance
    cc_pc,          \* OrderConcierge._convert_cents: "start" or "done"
    cc_data,        \* its argument data
    cc_converted,   \* the value it returns, NotConverted before
    gd_pc,          \* OrderConcierge.get_order_details: "start" or "done"
    gd_order_id,    \* its argument order_id
    gd_response,    \* observation: what the remote service answered, NoResponse before
    gd_return,      \* the mapping it returns
    cr_pc,          \* position of the carousel extraction
    cr_result,      \* result mapping handed to the extraction, in iteration order
    cr_max_items,   \* max_items of the Carousel instance
    cr_products,    \* products_data returned
    af_pc,          \* position of after_search
    af_plugin,      \* the Regionalization instance
    af_products,    \* product mapping handed to after_search, in iteration order
    af_context,     \* the search context of after_search
    af_return,      \* mapping after_search returned
    rc_sent,        \* _sent of the shared CAPI instance
    rc_pc,          \* position of each invocation in finalize_result
    rc_success,     \* success as each invocation holds it after send_event
    rc_started,     \* finalize_result calls started
    rc_successes,   \* sends that succeeded since the last reset
    rc_overlap      \* a call read _sent while another was in flight, since the last reset

capi_vars == <<capi_cfg, capi_sent, capi_log, capi_result>>
flow_vars == <<flow_cfg, flow_triggered, flow_log>>
stock_vars == <<st_pc, st_products, st_input, st_context, st_strategy, st_sim,
                st_priority, st_calls, st_details, st_k, st_stock, st_filtered>>
payload_vars == <<lp_pc, lp_products, lp_max_size_kb, lp_list, lp_bytes, lp_result>>
region_vars == <<rg_pc, rg_plugin, rg_context, rg_region>>
batch_vars == <<bs_pc, bs_args, bs_items, bs_response, bs_return>>
cart_vars == <<cs_pc, cs_args, cs_payload, cs_response, cs_return>>
orders_vars == <<od_pc, od_args, od_requests, od_return>>
client_vars == <<vc_pc, vc_args, vc_client>>
hooks_vars == <<hk_pc, hk_call, hk_after>>
pipeline_vars == <<pl_pc, pl_plugins, pl_i, pl_input, pl_value, pl_log>>
wholesale_vars == <<ws_cache, ws_log>>
cents_vars == <<cc_pc, cc_data, cc_converted>>
details_vars == <<gd_pc, gd_order_id, gd_response, gd_return>>
carousel_vars == <<cr_pc, cr_result, cr_max_items, cr_products>>
after_vars == <<af_pc, af_plugin, af_products, af_context, af_return>>
race_vars == <<rc_sent, rc_pc, rc_success, rc_started, rc_successes, rc_overlap>>

----------------------------------------------------------------------------
(* Python values *)

NoneVal == <<"None">>

\* bool(x) of a str or None
Truthy(x) == x # NoneVal /\ x # <<>>

\* a or b
PyOr(a, b) == IF Truthy(a) THEN a ELSE b

LowerChar(c) ==
    CASE c = "A" -> "a" [] c = "B" -> "b" [] c = "E" -> "e" [] c = "H" -> "h"
      [] c = "I" -> "i" [] c = "L" -> "l" [] c = "P" -> "p" [] c = "S" -> "s"
      [] c = "T" -> "t" [] c = "V" -> "v" [] c = "W" -> "w"
      [] OTHER -> c

\* str.lower()
Lower(s) == [i \in DOMAIN s |-> LowerChar(s[i])]

\* sub in s
Contains(s, sub) ==
    \E i \in 1..(Len(s) - Len(sub) + 1) : SubSeq(s, i, i + Len(sub) - 1) = sub

EmptyDict == [k \in {} |-> NoneVal]

\* d with d[k] = v added or overwritten
DictSet(d, k, v) == [x \in DOMAIN d \cup {k} |-> IF x = k THEN v ELSE d[x]]

\* d.get(k, default)
Get(d, k, default) == IF k \in DOMAIN d THEN d[k] ELSE default

\* d.update(e) on a copy of d
Update(d, e) == [k \in DOMAIN d \cup DOMAIN e |-> IF k \in DOMAIN e THEN e[k] ELSE d[k]]

\* the sequences over S of length at most n
SeqUpTo(S, n) == UNION { [1..m -> S] : m \in 0..n }

\* the outcome of one requests.post / requests.get: a status, or an exception
HttpOutcomes ==
    { [raised |-> FALSE, status |-> 200],
      [raised |-> FALSE, status |-> 500],
      [raised |-> TRUE, status |-> 0] }

----------------------------------------------------------------------------
(* Bounds *)

MaxCalls == 4       \* calls recorded per plugin instance
MaxProducts == 2    \* products of one search
MaxVariations == 2  \* variations of one product
MaxItems == 2       \* items of one cart simulation response
MaxPayload == 3     \* products handed to limit_payload_size
MaxBudgetKb == 3    \* largest max_size_kb tried
MaxSellers == 3     \* sellers of one batch simulation
MaxEntries == 2     \* entries of one SKU in a batch simulation response
MaxOrders == 2      \* orders of one answer of the orders endpoint
MaxUrlPieces == 4   \* pieces of one base_url
MaxPlugins == 3     \* registered plugins
MaxLookups == 4     \* lookups and clear_cache calls of one Wholesale instance
MaxFields == 2      \* fields of one dict of scalar values
MaxDepth == 2       \* nesting depth of a record handed to _convert_cents
MaxResultKeys == 3   \* keys of one result mapping
MaxCarousel == 2     \* largest max_items of a Carousel
MaxInvocations == 3  \* finalize_result calls on the shared CAPI instance

----------------------------------------------------------------------------
(* CAPI plugin *)

VALID_EVENT_TYPES == {"lead", "purchase"}

S_whatsapp == <<"w", "h", "a", "t", "s", "a", "p", "p">>

Urns ==
    { NoneVal,
      S_whatsapp \o <<":", "5">>,
      <<"W", "h", "a", "t", "s", "A", "p", "p", ":", "5">>,
      <<"t", "e", "l", ":", "5">> }

Tokens == { NoneVal, <<>>, <<"t">> }

\* contexts handed to CAPI.finalize_result: contact_info and credentials
CapiContexts ==
    [ urn : Urns, channel_uuid : {NoneVal, <<"c">>},
      cred_token : Tokens, contact_token : {NoneVal, <<"u">>} ]

\* results handed to finalize_result
InputResults == { EmptyDict, DictSet(EmptyDict, "region_message", <<"m">>) }

\* CAPI.send_event: posted says whether a request left, success is the return value
CAPI_send_event(auth_token, channel_uuid, contact_urn, event_type, http) ==
    IF ~(Truthy(auth_token) /\ Truthy(channel_uuid) /\ Truthy(contact_urn))
    THEN [posted |-> FALSE, success |-> FALSE]
    ELSE IF event_type \notin VALID_EVENT_TYPES
    THEN [posted |-> FALSE, success |-> FALSE]
    ELSE [posted |-> TRUE, success |-> (~http.raised /\ http.status = 200)]

\* the only_whatsapp test of finalize_result: TRUE when the call returns early
CAPI_not_whatsapp(only_whatsapp, contact_urn) ==
    only_whatsapp /\ Truthy(contact_urn) /\ ~Contains(Lower(contact_urn), S_whatsapp)

\* the value of _sent after the send: `if success: self._sent = True`
CAPI_sent_unmarked(sent, success) == sent
CAPI_sent_always(sent, success) == TRUE
CAPI_sent_after(sent, success) == IF success THEN TRUE ELSE sent

\* the result returned after the send
CAPI_result_after(result, success, event_type) ==
    IF success
    THEN DictSet(DictSet(result, "capi_event_sent", TRUE), "capi_event_type", event_type)
    ELSE result

\* data with which send_event reaches its request and the WhatsApp test passes
CapiReady(ctx) ==
    /\ Truthy(PyOr(ctx.cred_token, ctx.contact_token))
    /\ Truthy(ctx.channel_uuid)
    /\ Truthy(ctx.urn)
    /\ ~CAPI_not_whatsapp(capi_cfg.only_whatsapp, ctx.urn)

CapiEntry(ctx, posted, success) ==
    [op |-> "finalize", ready |-> CapiReady(ctx), posted |-> posted, success |-> success]

CAPI_finalize_result(result, ctx, http) ==
    /\ Len(capi_log) < MaxCalls
    /\ UNCHANGED capi_cfg
    /\ IF ~capi_cfg.auto_send \/ capi_sent
          \/ CAPI_not_whatsapp(capi_cfg.only_whatsapp, ctx.urn)
       THEN /\ capi_result' = result
            /\ capi_sent' = capi_sent
            /\ capi_log' = Append(capi_log, CapiEntry(ctx, FALSE, FALSE))
       ELSE LET sent == CAPI_send_event(PyOr(ctx.cred_token, ctx.contact_token),
                                        ctx.channel_uuid, ctx.urn,
                                        capi_cfg.event_type, http)
            IN  /\ capi_sent' = CAPI_sent_after(capi_sent, sent.success)
                /\ capi_result' = CAPI_result_after(result, sent.success,
                                                    capi_cfg.event_type)
                /\ capi_log' = Append(capi_log, CapiEntry(ctx, sent.posted, sent.success))

CAPI_reset ==
    /\ Len(capi_log) < MaxCalls
    /\ capi_sent' = FALSE
    /\ capi_log' = Append(capi_log,
                          [op |-> "reset", ready |-> FALSE, posted |-> FALSE,
                           success |-> FALSE])
    /\ UNCHANGED <<capi_cfg, capi_result>>

CapiInit ==
    /\ capi_cfg \in [auto_send : BOOLEAN, only_whatsapp : BOOLEAN,
                     event_type : VALID_EVENT_TYPES]
    /\ capi_sent = FALSE
    /\ capi_log = <<>>
    /\ capi_result = EmptyDict

CapiIdle ==
    /\ capi_cfg = [auto_send |-> TRUE, only_whatsapp |-> TRUE, event_type |-> "lead"]
    /\ capi_sent = FALSE
    /\ capi_log = <<>>
    /\ capi_result = EmptyDict

CapiFinalize ==
    \E result \in InputResults, ctx \in CapiContexts, http \in HttpOutcomes :
        CAPI_finalize_result(result, ctx, http)

\* no request of the calls before call i has succeeded since the last reset before i
NoSuccessSinceReset(log, i) ==
    ~\E j \in 1..(i - 1) :
        /\ log[j].success
        /\ \A k \in (j + 1)..(i - 1) : log[k].op # "reset"

\* call i is a finalize_result call made with data that lets the send go out
ReadyCall(log, i) == log[i].op = "finalize" /\ log[i].ready

\* C1 as stated: with auto_send and complete data, the first two finalize_result
\* calls after construction or after a reset(), with no reset() between them,
\* issue exactly one send request between them.
C1_ExactlyOneSend ==
    capi_cfg.auto_send =>
        \A i \in 1..(Len(capi_log) - 1) :
            ( /\ (i = 1 \/ capi_log[i - 1].op = "reset")
              /\ ReadyCall(capi_log, i)
              /\ ReadyCall(capi_log, i + 1) )
            => (capi_log[i].posted # capi_log[i + 1].posted)

\* C1 (amended): with auto_send and complete data, a finalize_result call issues a
\* send request exactly when no send request of the instance has succeeded since
\* construction or the last reset(): once a send has succeeded no later call sends
\* until reset(), a failed send is tried again by the next call, and the first
\* call after reset() sends again.
C1_SendUntilSuccess ==
    capi_cfg.auto_send =>
        \A i \in DOMAIN capi_log :
            ReadyCall(capi_log, i) =>
                (capi_log[i].posted <=> NoSuccessSinceReset(capi_log, i))

\* a successful send, a second call that sends nothing, a reset, and a call that
\* sends again
C1_Witness ==
    /\ capi_cfg.auto_send
    /\ Len(capi_log) = 4
    /\ ReadyCall(capi_log, 1) /\ capi_log[1].posted /\ capi_log[1].success
    /\ ReadyCall(capi_log, 2) /\ ~capi_log[2].posted
    /\ capi_log[3].op = "reset"
    /\ ReadyCall(capi_log, 4) /\ capi_log[4].posted

\* C27: when a CAPI send does not succeed (missing auth_token, channel_uuid or
\* contact_urn, non-200 response, transport exception), finalize_result returns
\* the result without the keys capi_event_sent and capi_event_type and leaves
\* the sent flag false, so the next finalize_result call attempts the send
\* again; the flag becomes true only after a send that returned success.
C27_FailedSendLeavesUnsent ==
    [][ (Len(capi_log') = Len(capi_log) + 1
          /\ capi_log'[Len(capi_log')].op = "finalize") =>
            LET e == capi_log'[Len(capi_log')]
            IN  /\ (~capi_sent /\ ~e.success) =>
                       /\ ~capi_sent'
                       /\ "capi_event_sent" \notin DOMAIN capi_result'
                       /\ "capi_event_type" \notin DOMAIN capi_result'
                /\ (capi_log # <<>> /\ capi_log[Len(capi_log)].op = "finalize"
                      /\ ~capi_log[Len(capi_log)].success /\ ~capi_sent
                      /\ capi_cfg.auto_send /\ e.ready) => e.posted
                /\ (capi_sent' /\ ~capi_sent) => (e.posted /\ e.success)
      ]_capi_vars

\* a send that failed on the wire, tried again by the next call, which succeeds
C27_Witness ==
    /\ Len(capi_log) = 2
    /\ ReadyCall(capi_log, 1) /\ capi_log[1].posted /\ ~capi_log[1].success
    /\ ReadyCall(capi_log, 2) /\ capi_log[2].posted /\ capi_log[2].success
    /\ capi_sent
    /\ "capi_event_sent" \in DOMAIN capi_result

\* a send without auth_token: no request leaves and the flag stays false
C27_WitnessMissing ==
    /\ Len(capi_log) = 1
    /\ capi_cfg.auto_send
    /\ capi_log[1].op = "finalize" /\ ~capi_log[1].ready /\ ~capi_log[1].posted
    /\ ~capi_sent
    /\ capi_result # EmptyDict

----------------------------------------------------------------------------
(* WeniFlowTrigger plugin *)

\* contexts handed to WeniFlowTrigger.finalize_result: credentials and contact_info
FlowContexts ==
    [ API_TOKEN_WENI : {NoneVal, <<"t">>}, EVENT_ID_CONCIERGE : {NoneVal, <<"e">>},
      urn : {NoneVal, <<>>, S_whatsapp \o <<":", "5">>} ]

\* WeniFlowTrigger.trigger_flow: every call posts; the return value
WeniFlowTrigger_trigger_flow(http) == ~http.raised /\ http.status = 200

\* the first test of finalize_result: TRUE when the call returns early
WeniFlowTrigger_skip_always(trigger_once, triggered) == FALSE
WeniFlowTrigger_skip(trigger_once, triggered) == trigger_once /\ triggered

\* the value of _triggered after the request: `if success: self._triggered = True`
WeniFlowTrigger_triggered_after(triggered, success) ==
    IF success THEN TRUE ELSE triggered

FlowReady(ctx) ==
    /\ Truthy(ctx.API_TOKEN_WENI)
    /\ Truthy(PyOr(flow_cfg.flow_uuid, ctx.EVENT_ID_CONCIERGE))
    /\ Truthy(ctx.urn)

FlowEntry(ctx, posted, success) ==
    [op |-> "finalize", ready |-> FlowReady(ctx), posted |-> posted, success |-> success]

WeniFlowTrigger_finalize_result(ctx, http) ==
    /\ Len(flow_log) < MaxCalls
    /\ UNCHANGED flow_cfg
    /\ IF WeniFlowTrigger_skip(flow_cfg.trigger_once, flow_triggered)
       THEN /\ flow_triggered' = flow_triggered
            /\ flow_log' = Append(flow_log, FlowEntry(ctx, FALSE, FALSE))
       ELSE IF ~( /\ Truthy(ctx.API_TOKEN_WENI)
                  /\ Truthy(PyOr(flow_cfg.flow_uuid, ctx.EVENT_ID_CONCIERGE))
                  /\ Truthy(ctx.urn) )
       THEN /\ flow_triggered' = flow_triggered
            /\ flow_log' = Append(flow_log, FlowEntry(ctx, FALSE, FALSE))
       ELSE LET success == WeniFlowTrigger_trigger_flow(http)
            IN  /\ flow_triggered' = WeniFlowTrigger_triggered_after(flow_triggered,
                                                                     success)
                /\ flow_log' = Append(flow_log, FlowEntry(ctx, TRUE, success))

WeniFlowTrigger_reset ==
    /\ Len(flow_log) < MaxCalls
    /\ flow_triggered' = FALSE
    /\ flow_log' = Append(flow_log,
                          [op |-> "reset", ready |-> FALSE, posted |-> FALSE,
                           success |-> FALSE])
    /\ UNCHANGED flow_cfg

FlowInit ==
    /\ flow_cfg \in [trigger_once : BOOLEAN, flow_uuid : {NoneVal, <<"f">>}]
    /\ flow_triggered = FALSE
    /\ flow_log = <<>>

FlowIdle ==
    /\ flow_cfg = [trigger_once |-> TRUE, flow_uuid |-> NoneVal]
    /\ flow_triggered = FALSE
    /\ flow_log = <<>>

FlowFinalize ==
    \E ctx \in FlowContexts, http \in HttpOutcomes :
        WeniFlowTrigger_finalize_result(ctx, http)

\* C2: with trigger_once, a finalize_result call issues a trigger request only if
\* no trigger request of the instance has succeeded since construction or the last
\* reset(); so at most one trigger succeeds between two resets.
C2_TriggerOnce ==
    flow_cfg.trigger_once =>
        \A i \in DOMAIN flow_log :
            /\ flow_log[i].posted => NoSuccessSinceReset(flow_log, i)
            /\ flow_log[i].success => NoSuccessSinceReset(flow_log, i)

\* a successful trigger, a later call with full data that triggers nothing, a
\* reset, and a call that triggers again
C2_Witness ==
    /\ flow_cfg.trigger_once
    /\ Len(flow_log) = 4
    /\ flow_log[1].success
    /\ ReadyCall(flow_log, 2) /\ ~flow_log[2].posted
    /\ flow_log[3].op = "reset"
    /\ flow_log[4].posted

----------------------------------------------------------------------------
(* StockManager *)

S_available == <<"a", "v", "a", "i", "l", "a", "b", "l", "e">>

\* the variations the search can produce: one with a sellerId, one without
Variations ==
    { [sku_id |-> <<"1">>, sku_name |-> <<"x">>, sellerId |-> <<"2">>],
      [sku_id |-> <<"2">>, sku_name |-> <<"y">>] }

\* the variation lists of one product: sku_id is unique within a product
VariationLists ==
    { vs \in SeqUpTo(Variations, MaxVariations) :
        \A i, j \in DOMAIN vs : i # j => vs[i].sku_id # vs[j].sku_id }

ProductNames == <<"p1", "p2", "p3", "p4">>

\* products_structured: a dict in insertion order, names unique
ProductDicts ==
    { [i \in 1..Len(vl) |->
          [product_name |-> ProductNames[i],
           product_data |-> [description |-> <<"d">>, categories |-> <<>>,
                             variations |-> vl[i]]]] :
      vl \in SeqUpTo(VariationLists, MaxProducts) }

\* the items of a cart simulation response: an item names a SKU, or carries no id
CartItems ==
    [ id : {<<"1">>, <<"2">>},
      availability : { S_available,
                       <<"A", "v", "a", "i", "l", "a", "b", "l", "e">>,
                       <<"w", "i", "t", "h", "o", "u", "t", "S", "t", "o", "c", "k">> } ]
    \cup { [id |-> NoneVal, availability |-> S_available] }

CartBodies == { [items |-> its] : its \in SeqUpTo(CartItems, MaxItems) }

NoSim == [called |-> FALSE]

\* VTEXClient.cart_simulation: the body of a 2xx response, {"items": []} otherwise
cart_simulation_unchecked(http, body) == body
cart_simulation(http, body) ==
    IF http.raised \/ http.status >= 400 THEN [items |-> <<>>] ELSE body

\* the values VTEXClient.batch_simulation returns: None, or one entry of the response
BatchReturns ==
    { [is_none |-> TRUE],
      [is_none |-> FALSE, quantity |-> 0, sellerId |-> <<"a">>,
       measurementUnit |-> <<"u", "n">>, unitMultiplier |-> 1, deliveryType |-> <<"E">>],
      [is_none |-> FALSE, quantity |-> 5, sellerId |-> <<"b">>,
       measurementUnit |-> <<"u", "n">>, unitMultiplier |-> 1, deliveryType |-> <<"E">>] }

\* the floor of the quantity simulated for a SKU of a priority category
PriorityQuantity == 1000

StockContexts == [ quantity : {1}, sellers : {<<>>, <<<<"a">>, <<"b">>>>},
                   postal_code : {<<"0">>} ]

\* one entry of the list _flatten_products_to_skus builds (the fields the stock
\* stage reads; the others are copied the same way)
FlatSku(product_data, variation) ==
    [sku_id |-> Get(variation, "sku_id", NoneVal),
     sku_name |-> Get(variation, "sku_name", NoneVal),
     seller |-> Get(variation, "sellerId", NoneVal),
     description |-> Get(product_data, "description", NoneVal),
     categories |-> Get(product_data, "categories", <<>>)]

RECURSIVE _flatten_products_to_skus(_)
_flatten_products_to_skus(products) ==
    IF products = <<>> THEN <<>>
    ELSE LET pd == Head(products).product_data
             vs == Get(pd, "variations", <<>>)
         IN  [i \in 1..Len(vs) |-> FlatSku(pd, vs[i])]
             \o _flatten_products_to_skus(Tail(products))

\* the test of an item in _select_available_products
ItemAvailable_exact(item) ==
    Get(item, "availability", <<>>) = S_available /\ Truthy(Get(item, "id", NoneVal))
ItemAvailable(item) ==
    Lower(Get(item, "availability", <<>>)) = S_available
    /\ Truthy(Get(item, "id", NoneVal))

_select_available_products_open(simulation_result, products_details) ==
    LET items == Get(simulation_result, "items", <<>>)
        available_ids == { items[i].id : i \in { j \in DOMAIN items : ItemAvailable(items[j]) } }
        Keep(p) == Get(p, "sku_id", NoneVal) \in available_ids
    IN  IF items = <<>> THEN products_details ELSE SelectSeq(products_details, Keep)
_select_available_products(simulation_result, products_details) ==
    LET items == Get(simulation_result, "items", <<>>)
        available_ids == { items[i].id : i \in { j \in DOMAIN items : ItemAvailable(items[j]) } }
        Keep(p) == Get(p, "sku_id", NoneVal) \in available_ids
    IN  SelectSeq(products_details, Keep)

\* check_availability_simple, given what cart_simulation returns when called
check_availability_simple(products, simulation_result) ==
    IF products = <<>> THEN <<>>
    ELSE LET products_details == _flatten_products_to_skus(products)
         IN  IF products_details = <<>> THEN <<>>
             ELSE _select_available_products(simulation_result, products_details)

\* the items check_availability_simple hands to cart_simulation
SimulationItems(products_details, context) ==
    [i \in DOMAIN products_details |->
        [id |-> Get(products_details[i], "sku_id", NoneVal),
         quantity |-> context.quantity,
         seller |-> Get(products_details[i], "seller", <<"1">>)]]

\* TRUE when check_availability_simple reaches its cart_simulation call
SimpleCalls(products) ==
    products # <<>> /\ _flatten_products_to_skus(products) # <<>>

\* stock_info[sku_id] of filter_products_with_stock: the last entry of the list wins
StockInfo(products_with_stock, sku_id) ==
    LET idx == { i \in DOMAIN products_with_stock :
                    Get(products_with_stock[i], "sku_id", NoneVal) = sku_id }
        last == CHOOSE i \in idx : \A j \in idx : j <= i
        product == products_with_stock[last]
    IN  [measurementUnit |-> Get(product, "measurementUnit", <<>>),
         unitMultiplier |-> Get(product, "unitMultiplier", 1),
         deliveryType |-> Get(product, "deliveryType", <<>>),
         sellerId |-> Get(product, "sellerId", <<>>),
         available_quantity |-> Get(product, "available_quantity", 0),
         minQuantity |-> Get(product, "minQuantity", NoneVal),
         valueAtacado |-> Get(product, "valueAtacado", NoneVal)]

InStockInfo(products_with_stock, sku_id) ==
    \E i \in DOMAIN products_with_stock :
        Get(products_with_stock[i], "sku_id", NoneVal) = sku_id

\* filtered_variations of one product: copies of the variations, annotated
FilteredVariations(product_data, products_with_stock) ==
    LET vs == Get(product_data, "variations", <<>>)
        Keep(v) == InStockInfo(products_with_stock, Get(v, "sku_id", NoneVal))
        kept == SelectSeq(vs, Keep)
    IN  [i \in DOMAIN kept |->
            Update(kept[i], StockInfo(products_with_stock, Get(kept[i], "sku_id", NoneVal)))]

\* `if filtered_variations:` of filter_products_with_stock
KeepProduct_always(filtered_variations) == TRUE
KeepProduct(filtered_variations) == filtered_variations # <<>>

\* filter_products_with_stock: the mapping it returns
filter_products_with_stock(products_structured, products_with_stock) ==
    IF products_with_stock = <<>> THEN <<>>
    ELSE LET Keep(p) == KeepProduct(FilteredVariations(p.product_data, products_with_stock))
             kept == SelectSeq(products_structured, Keep)
         IN  [i \in DOMAIN kept |->
                [product_name |-> kept[i].product_name,
                 product_data |->
                    Update(kept[i].product_data,
                           [variations |-> FilteredVariations(kept[i].product_data,
                                                              products_with_stock)])]]

\* products_structured after filter_products_with_stock: the function writes only
\* to the copies made by variation.copy() and product_data.copy()
InputAfterFilter(products_structured, products_with_stock) == products_structured

StockInit ==
    /\ st_pc = "start"
    /\ st_products \in ProductDicts
    /\ st_input = st_products
    /\ st_context \in StockContexts
    /\ st_strategy = "none"
    /\ st_sim = NoSim
    /\ st_priority = <<>>
    /\ st_calls = <<>>
    /\ st_details = <<>>
    /\ st_k = 1
    /\ st_stock = <<>>
    /\ st_filtered = <<>>

StockIdle ==
    /\ st_pc = "start"
    /\ st_products = <<>>
    /\ st_input = <<>>
    /\ st_context = [quantity |-> 1, sellers |-> <<>>, postal_code |-> <<"0">>]
    /\ st_strategy = "none"
    /\ st_sim = NoSim
    /\ st_priority = <<>>
    /\ st_calls = <<>>
    /\ st_details = <<>>
    /\ st_k = 1
    /\ st_stock = <<>>
    /\ st_filtered = <<>>

\* the category lists of the products of a seller-aware search, by position
ProductCategories ==
    << << <<"x">>, <<"c">> >>, << <<"x">> >>, <<>>, << <<"c">> >> >>

\* products_structured of a seller-aware search: as ProductDicts, with categories
SellerProductDicts ==
    { [i \in 1..Len(vl) |->
          [product_name |-> ProductNames[i],
           product_data |-> [description |-> <<"d">>, categories |-> ProductCategories[i],
                             variations |-> vl[i]]]] :
      vl \in SeqUpTo(VariationLists, MaxProducts) }

\* a context with sellers, asking for one unit or for more than PriorityQuantity
SellerContexts == [ quantity : {1, 2 * PriorityQuantity},
                    sellers : {<< <<"a">>, <<"b">> >>},
                    postal_code : {<<"0">>} ]

\* priority_categories: none, or two of which the products carry one
PriorityLists == { <<>>, << <<"y">>, <<"c">> >> }

\* a stock stage that is handed sellers and priority categories
SellersInit ==
    /\ st_pc = "start"
    /\ st_products \in SellerProductDicts
    /\ st_input = st_products
    /\ st_context \in SellerContexts
    /\ st_strategy = "none"
    /\ st_sim = NoSim
    /\ st_priority \in PriorityLists
    /\ st_calls = <<>>
    /\ st_details = <<>>
    /\ st_k = 1
    /\ st_stock = <<>>
    /\ st_filtered = <<>>

\* the simple strategy; http and body are what the remote service answers
SimpleRun(http, body) ==
    /\ st_sim' = IF SimpleCalls(st_products)
                 THEN [called |-> TRUE,
                       items |-> SimulationItems(_flatten_products_to_skus(st_products),
                                                 st_context),
                       result |-> cart_simulation(http, body)]
                 ELSE NoSim
    /\ st_stock' = check_availability_simple(st_products, cart_simulation(http, body))
    /\ st_pc' = "checked"
    /\ UNCHANGED <<st_products, st_input, st_context, st_priority, st_calls, st_details,
                   st_k, st_filtered>>

CheckAvailabilitySimple ==
    /\ st_pc = "start"
    /\ st_strategy' = "simple"
    /\ \E http \in HttpOutcomes, body \in CartBodies : SimpleRun(http, body)

\* check_availability_with_sellers up to its loop: without products or sellers it
\* is check_availability_simple
CheckAvailabilityWithSellers ==
    /\ st_pc = "start"
    /\ IF st_products = <<>> \/ st_context.sellers = <<>>
       THEN /\ st_strategy' = "fallback"
            /\ \E http \in HttpOutcomes, body \in CartBodies : SimpleRun(http, body)
       ELSE /\ st_strategy' = "sellers"
            /\ st_details' = _flatten_products_to_skus(st_products)
            /\ st_pc' = IF st_details' = <<>> THEN "checked" ELSE "batch"
            /\ st_stock' = <<>>
            /\ UNCHANGED <<st_products, st_input, st_context, st_sim, st_priority,
                           st_calls, st_k, st_filtered>>

\* the entry appended for a SKU whose simulation has quantity > 0
ProductWithStock(product, simulation_result) ==
    Update(product,
           [measurementUnit |-> Get(simulation_result, "measurementUnit", <<>>),
            unitMultiplier |-> Get(simulation_result, "unitMultiplier", 1),
            deliveryType |-> Get(simulation_result, "deliveryType", <<>>),
            sellerId |-> Get(simulation_result, "sellerId", <<>>),
            available_quantity |-> Get(simulation_result, "quantity", 0)])

\* `if simulation_result and simulation_result.get("quantity", 0) > 0`
HasStock_any(simulation_result) == ~simulation_result.is_none
HasStock(simulation_result) ==
    ~simulation_result.is_none /\ Get(simulation_result, "quantity", 0) > 0

\* _is_priority_category: some category of the SKU is a priority category
_is_priority_category(categories, priority_categories) ==
    IF categories = <<>> \/ priority_categories = <<>> THEN FALSE
    ELSE \E i \in DOMAIN categories :
            \E j \in DOMAIN priority_categories : categories[i] = priority_categories[j]

\* simulation_quantity of one SKU
simulation_quantity_plain(is_priority, quantity) == quantity
simulation_quantity(is_priority, quantity) ==
    IF is_priority
    THEN (IF quantity >= PriorityQuantity THEN quantity ELSE PriorityQuantity)
    ELSE quantity

\* one round of the loop of check_availability_with_sellers: one batch_simulation
\* call, which returns simulation_result
BatchStep ==
    /\ st_pc = "batch"
    /\ \E simulation_result \in BatchReturns :
          LET product == st_details[st_k]
              is_priority == _is_priority_category(Get(product, "categories", <<>>),
                                                   st_priority)
          IN  /\ st_calls' = Append(st_calls,
                     [sku_id |-> Get(product, "sku_id", NoneVal),
                      quantity |-> simulation_quantity(is_priority, st_context.quantity),
                      sellers |-> st_context.sellers,
                      postal_code |-> st_context.postal_code,
                      result |-> simulation_result])
              /\ st_stock' = IF HasStock(simulation_result)
                             THEN Append(st_stock,
                                         ProductWithStock(product, simulation_result))
                             ELSE st_stock
    /\ st_k' = st_k + 1
    /\ st_pc' = IF st_k = Len(st_details) THEN "checked" ELSE "batch"
    /\ UNCHANGED <<st_products, st_input, st_context, st_strategy, st_sim, st_priority,
                   st_details, st_filtered>>

FilterProductsWithStock ==
    /\ st_pc = "checked"
    /\ st_filtered' = filter_products_with_stock(st_products, st_stock)
    /\ st_products' = InputAfterFilter(st_products, st_stock)
    /\ st_pc' = "filtered"
    /\ UNCHANGED <<st_input, st_context, st_strategy, st_sim, st_priority, st_calls,
                   st_details, st_k, st_stock>>

\* the stage ran check_availability_simple (directly, or as the fallback of
\* check_availability_with_sellers) and then filter_products_with_stock
SimpleFiltered == st_pc = "filtered" /\ st_strategy \in {"simple", "fallback"}

\* the cart simulation returned an item with this id that is available, ignoring case
SimAvailable(sku_id) ==
    /\ st_sim.called
    /\ \E i \in DOMAIN st_sim.result.items :
          /\ st_sim.result.items[i].id = sku_id
          /\ Lower(st_sim.result.items[i].availability) = S_available

\* the filtered result holds the product with a variation of this sku_id
InFiltered(product_name, sku_id) ==
    \E i \in DOMAIN st_filtered :
        /\ st_filtered[i].product_name = product_name
        /\ \E j \in DOMAIN st_filtered[i].product_data.variations :
              st_filtered[i].product_data.variations[j].sku_id = sku_id

\* the variations of the products, in the order of the flattening
RECURSIVE AllVariations(_)
AllVariations(products) ==
    IF products = <<>> THEN <<>>
    ELSE Head(products).product_data.variations \o AllVariations(Tail(products))

\* C29: check_availability_simple makes one cart_simulation call, holding one
\* item per flattened variation with quantity context.quantity, and every item
\* carries a seller id: the variation's sellerId when it has one, otherwise
\* the default seller "1", never a null seller.
C29_ItemsCarrySeller ==
    (st_strategy = "simple" /\ st_pc # "start" /\ AllVariations(st_input) # <<>>) =>
        LET vs == AllVariations(st_input)
        IN  /\ st_sim.called
            /\ Len(st_sim.items) = Len(vs)
            /\ \A i \in DOMAIN vs :
                  /\ st_sim.items[i].id = vs[i].sku_id
                  /\ st_sim.items[i].quantity = st_context.quantity
                  /\ st_sim.items[i].seller # NoneVal
                  /\ st_sim.items[i].seller =
                        (IF "sellerId" \in DOMAIN vs[i] THEN vs[i].sellerId ELSE <<"1">>)

\* the same without the seller of a variation that has no sellerId
C29_ItemsPerVariation ==
    (st_strategy = "simple" /\ st_pc # "start" /\ AllVariations(st_input) # <<>>) =>
        LET vs == AllVariations(st_input)
        IN  /\ st_sim.called
            /\ Len(st_sim.items) = Len(vs)
            /\ \A i \in DOMAIN vs :
                  /\ st_sim.items[i].id = vs[i].sku_id
                  /\ st_sim.items[i].quantity = st_context.quantity
                  /\ "sellerId" \in DOMAIN vs[i] => st_sim.items[i].seller = vs[i].sellerId

\* C3: under the simple strategy a variation is in the filtered result if and only
\* if the cart simulation returned an item with its SKU id whose availability is
\* "available" ignoring case, and a product without such a variation is absent.
C3_SimpleStrategy ==
    SimpleFiltered =>
        \A p \in DOMAIN st_input :
            LET name == st_input[p].product_name
                vs == st_input[p].product_data.variations
            IN  /\ \A v \in DOMAIN vs :
                      InFiltered(name, vs[v].sku_id) <=> SimAvailable(vs[v].sku_id)
                /\ (\A v \in DOMAIN vs : ~SimAvailable(vs[v].sku_id))
                      => \A i \in DOMAIN st_filtered : st_filtered[i].product_name # name

\* a product keeps its first variation, matched by "Available", and loses its
\* second; another product with variations is dropped
C3_Witness ==
    /\ SimpleFiltered
    /\ st_sim.called
    /\ \E i \in DOMAIN st_sim.result.items :
          /\ st_sim.result.items[i].availability # S_available
          /\ SimAvailable(st_sim.result.items[i].id)
    /\ \E p \in DOMAIN st_input :
          /\ Len(st_input[p].product_data.variations) = 2
          /\ \E i \in DOMAIN st_filtered :
                /\ st_filtered[i].product_name = st_input[p].product_name
                /\ Len(st_filtered[i].product_data.variations) = 1
    /\ \E p \in DOMAIN st_input :
          /\ st_input[p].product_data.variations # <<>>
          /\ \A i \in DOMAIN st_filtered :
                st_filtered[i].product_name # st_input[p].product_name

\* C4 as stated: after either strategy every variation in the output of
\* filter_products_with_stock has available_quantity > 0.
C4_PositiveQuantity ==
    st_pc = "filtered" =>
        \A i \in DOMAIN st_filtered :
            \A j \in DOMAIN st_filtered[i].product_data.variations :
                st_filtered[i].product_data.variations[j].available_quantity > 0

\* the position of a product name in the input
InputIndex(product_name) ==
    CHOOSE p \in DOMAIN st_input : st_input[p].product_name = product_name

\* the keys filter_products_with_stock writes into a variation
StockKeys ==
    {"measurementUnit", "unitMultiplier", "deliveryType", "sellerId",
     "available_quantity", "minQuantity", "valueAtacado"}

\* the sku_id is the sku_id of some entry of products_with_stock
InStockList(sku_id) == \E k \in DOMAIN st_stock : st_stock[k].sku_id = sku_id

\* C5: the output of filter_products_with_stock has (a) product names that are
\* input names, in input order, (b) per product exactly the input variations whose
\* sku_id is in the stock list, in their order, (c) no product without variations;
\* the input is left as it was.
C5_FilterShape ==
    st_pc = "filtered" =>
        /\ \A i \in DOMAIN st_filtered :
              \E p \in DOMAIN st_input :
                  st_input[p].product_name = st_filtered[i].product_name
        /\ \A i, j \in DOMAIN st_filtered :
              i < j => InputIndex(st_filtered[i].product_name)
                         < InputIndex(st_filtered[j].product_name)
        /\ \A i \in DOMAIN st_filtered :
              LET out == st_filtered[i].product_data.variations
                  inp == st_input[InputIndex(st_filtered[i].product_name)]
                            .product_data.variations
                  InList(v) == InStockList(v.sku_id)
                  kept == SelectSeq(inp, InList)
              IN  /\ Len(out) = Len(kept)
                  /\ \A v \in DOMAIN out :
                        \A key \in DOMAIN kept[v] \ StockKeys :
                            key \in DOMAIN out[v] /\ out[v][key] = kept[v][key]
                  /\ out # <<>>
        /\ st_products = st_input

\* a filtered result that keeps a product, drops another, and drops a variation of
\* a product it keeps
C5_Witness ==
    /\ st_pc = "filtered"
    /\ st_filtered # <<>>
    /\ Len(st_filtered) < Len(st_input)
    /\ \E i \in DOMAIN st_filtered :
          Len(st_filtered[i].product_data.variations)
            < Len(st_input[InputIndex(st_filtered[i].product_name)].product_data.variations)

\* the stage went through the loop of check_availability_with_sellers
SellersChecked == st_strategy = "sellers" /\ st_pc \in {"checked", "filtered"}

\* the category list of the SKU shares a category with priority_categories
IntersectsPriority(sku) ==
    { sku.categories[i] : i \in DOMAIN sku.categories }
      \cap { st_priority[j] : j \in DOMAIN st_priority } # {}

\* C11: in check_availability_with_sellers the batch simulation of a SKU whose
\* categories intersect priority_categories is requested with the larger of
\* context.quantity and 1000 (1000 when one unit is asked for), and the batch
\* simulation of every other SKU with exactly context.quantity.
C11_PriorityQuantity ==
    st_strategy = "sellers" =>
        \A c \in DOMAIN st_calls :
            LET sku == _flatten_products_to_skus(st_input)[c]
                q == st_context.quantity
            IN  IF IntersectsPriority(sku)
                THEN /\ st_calls[c].quantity >= q
                     /\ st_calls[c].quantity >= 1000
                     /\ st_calls[c].quantity \in {q, 1000}
                     /\ q = 1 => st_calls[c].quantity = 1000
                ELSE st_calls[c].quantity = q

\* one unit asked for: a SKU of a priority category simulated with 1000, and a SKU
\* of another category simulated with 1
C11_Witness ==
    /\ SellersChecked
    /\ st_context.quantity = 1
    /\ \E c, d \in DOMAIN st_calls :
          /\ IntersectsPriority(st_details[c]) /\ st_calls[c].quantity = 1000
          /\ st_details[d].categories # <<>>
          /\ ~IntersectsPriority(st_details[d]) /\ st_calls[d].quantity = 1

\* the calls that returned a result with quantity > 0
PositiveCalls ==
    { c \in DOMAIN st_calls :
        ~st_calls[c].result.is_none /\ st_calls[c].result.quantity > 0 }

\* the k-th of them
PositiveCall(k) ==
    CHOOSE c \in PositiveCalls : Cardinality({ d \in PositiveCalls : d <= c }) = k

\* C12: with sellers, check_availability_with_sellers makes exactly one
\* batch_simulation call per flattened SKU; the list it returns holds exactly the
\* SKUs whose call returned a result with quantity > 0, each with the
\* measurementUnit, unitMultiplier, deliveryType and sellerId of that result and
\* the result's quantity as available_quantity.
C12_OneCallPerSku ==
    (SellersChecked /\ st_context.sellers # <<>>) =>
        LET skus == _flatten_products_to_skus(st_input)
        IN  /\ Len(st_calls) = Len(skus)
            /\ \A c \in DOMAIN st_calls : st_calls[c].sku_id = skus[c].sku_id
            /\ Len(st_stock) = Cardinality(PositiveCalls)
            /\ \A k \in DOMAIN st_stock :
                  LET r == st_calls[PositiveCall(k)].result
                      p == st_stock[k]
                  IN  /\ p.sku_id = skus[PositiveCall(k)].sku_id
                      /\ p.sku_name = skus[PositiveCall(k)].sku_name
                      /\ p.measurementUnit = r.measurementUnit
                      /\ p.unitMultiplier = r.unitMultiplier
                      /\ p.deliveryType = r.deliveryType
                      /\ p.sellerId = r.sellerId
                      /\ p.available_quantity = r.quantity

\* three SKUs or more: one call returned None, one a result of quantity 0 and one
\* a result of positive quantity
C12_Witness ==
    /\ SellersChecked
    /\ Len(st_calls) >= 3
    /\ \E c \in DOMAIN st_calls : st_calls[c].result.is_none
    /\ \E c \in DOMAIN st_calls :
          ~st_calls[c].result.is_none /\ st_calls[c].result.quantity = 0
    /\ PositiveCalls # {}
    /\ Len(st_stock) < Len(st_calls)

\* the stock simulation came back empty: {"items": []} from cart_simulation, or
\* None from every batch_simulation call
SimulationEmpty ==
    \/ /\ st_strategy \in {"simple", "fallback"}
       /\ st_sim.called
       /\ st_sim.result = [items |-> <<>>]
    \/ /\ st_strategy = "sellers"
       /\ \A c \in DOMAIN st_calls : st_calls[c].result.is_none

\* C16: when the stock simulation comes back empty the check_availability
\* function returns the empty list and filter_products_with_stock the empty
\* mapping; the stage reaches both results, it has no step that raises.
C16_EmptySimulationDegrades ==
    /\ (st_pc \in {"checked", "filtered"} /\ SimulationEmpty) => st_stock = <<>>
    /\ (st_pc = "filtered" /\ SimulationEmpty) => st_filtered = <<>>
    /\ st_pc \in {"start", "batch", "checked", "filtered"}

\* products with SKUs, filtered after a simulation that came back empty
C16_Witness ==
    /\ st_pc = "filtered"
    /\ SimulationEmpty
    /\ _flatten_products_to_skus(st_input) # <<>>
    /\ st_strategy \in {"simple", "fallback"}

C16_WitnessSellers ==
    /\ st_pc = "filtered"
    /\ SimulationEmpty
    /\ st_strategy = "sellers"
    /\ Len(st_calls) >= 2

----------------------------------------------------------------------------
(* StockManager.limit_payload_size *)

\* len(json.dumps(product_data)) of the products tried: "{}", a small and a large one
DataBytes == {2, 950, 2000}

\* a product stands for its name and the length of its serialized product_data
PayloadProducts ==
    { [i \in 1..Len(sizes) |-> [product_name |-> ProductNames[i], data_bytes |-> sizes[i]]] :
      sizes \in SeqUpTo(DataBytes, MaxPayload) }

RECURSIVE SumBytes(_)
SumBytes(items) == IF items = <<>> THEN 0 ELSE Head(items) + SumBytes(Tail(items))

\* len(json.dumps({"product_name": name, "product_data": data})): the braces, the
\* two keys with their separators, the quoted two-letter name and the data
ItemBytes(product) == 17 + 4 + 18 + product.data_bytes + 1

\* len(json.dumps(product_list).encode("utf-8")): "[", the items joined by ", ", "]"
JsonBytes(product_list) ==
    IF product_list = <<>> THEN 2
    ELSE 2 + SumBytes([i \in DOMAIN product_list |-> ItemBytes(product_list[i])])
           + 2 * (Len(product_list) - 1)

\* size_kb > max_size_kb, with size_kb = bytes / 1024 (a float division)
OverBudget_floor(bytes, max_size_kb) == bytes \div 1024 > max_size_kb
OverBudget(bytes, max_size_kb) == bytes > max_size_kb * 1024

PayloadInit ==
    /\ lp_pc = "start"
    /\ lp_products \in PayloadProducts
    /\ lp_max_size_kb \in 0..MaxBudgetKb
    /\ lp_list = <<>>
    /\ lp_bytes = 0
    /\ lp_result = <<>>

PayloadIdle ==
    /\ lp_pc = "start"
    /\ lp_products = <<>>
    /\ lp_max_size_kb = 20
    /\ lp_list = <<>>
    /\ lp_bytes = 0
    /\ lp_result = <<>>

\* product_list is built and serialized
LimitStart ==
    /\ lp_pc = "start"
    /\ lp_list' = lp_products
    /\ lp_bytes' = JsonBytes(lp_products)
    /\ lp_pc' = "loop"
    /\ UNCHANGED <<lp_products, lp_max_size_kb, lp_result>>

\* one round of the while loop
LimitPop ==
    /\ lp_pc = "loop"
    /\ OverBudget(lp_bytes, lp_max_size_kb) /\ lp_list # <<>>
    /\ lp_list' = SubSeq(lp_list, 1, Len(lp_list) - 1)
    /\ lp_bytes' = JsonBytes(lp_list')
    /\ UNCHANGED <<lp_pc, lp_products, lp_max_size_kb, lp_result>>

\* the loop ends and the mapping is rebuilt from product_list
LimitReturn ==
    /\ lp_pc = "loop"
    /\ ~(OverBudget(lp_bytes, lp_max_size_kb) /\ lp_list # <<>>)
    /\ lp_result' = lp_list
    /\ lp_pc' = "done"
    /\ UNCHANGED <<lp_products, lp_max_size_kb, lp_list, lp_bytes>>

\* the bytes of the returned mapping, serialized as the function serializes it
ResultBytes ==
    2 + SumBytes([i \in DOMAIN lp_result |-> 40 + lp_result[i].data_bytes])
      + (IF lp_result = <<>> THEN 0 ELSE 2 * (Len(lp_result) - 1))

\* C6: the result of limit_payload_size is a prefix of its input, and it is empty
\* or its serialized size is within the budget.
C6_PayloadCap ==
    lp_pc = "done" =>
        /\ Len(lp_result) <= Len(lp_products)
        /\ lp_result = SubSeq(lp_products, 1, Len(lp_result))
        /\ (lp_result = <<>> \/ ResultBytes <= lp_max_size_kb * 1024)

\* products were dropped from the tail and a non-empty result within budget is left
C6_Witness ==
    /\ lp_pc = "done"
    /\ lp_result # <<>>
    /\ Len(lp_result) < Len(lp_products)
    /\ JsonBytes(lp_products) > lp_max_size_kb * 1024

\* every product was dropped because the first alone is over the budget
C6_WitnessEmpty ==
    /\ lp_pc = "done"
    /\ lp_result = <<>>
    /\ lp_products # <<>>
    /\ lp_max_size_kb > 0

\* limit_payload_size as a function of product_list: the while loop
RECURSIVE limit_payload_size(_, _)
limit_payload_size(product_list, max_size_kb) ==
    IF OverBudget(JsonBytes(product_list), max_size_kb) /\ product_list # <<>>
    THEN limit_payload_size(SubSeq(product_list, 1, Len(product_list) - 1), max_size_kb)
    ELSE product_list

\* the first n products of the input are within the budget when serialized
PrefixWithinBudget(n) ==
    JsonBytes(SubSeq(lp_products, 1, n)) <= lp_max_size_kb * 1024

\* the result is the longest prefix of the input that is within the budget
ResultIsLongestPrefix ==
    /\ PrefixWithinBudget(Len(lp_result))
    /\ \A n \in (Len(lp_result) + 1)..Len(lp_products) : ~PrefixWithinBudget(n)

\* C30 as stated: limit_payload_size always terminates and returns the longest
\* prefix of the input whose serialized size is within the budget; an input
\* within the budget is returned unchanged, and applying the function to its
\* own result with the same budget returns that result.
C30_LongestPrefix ==
    /\ <>(lp_pc = "done")
    /\ [](lp_pc = "done" =>
            /\ Len(lp_result) <= Len(lp_products)
            /\ lp_result = SubSeq(lp_products, 1, Len(lp_result))
            /\ ResultIsLongestPrefix
            /\ PrefixWithinBudget(Len(lp_products)) => lp_result = lp_products
            /\ limit_payload_size(lp_result, lp_max_size_kb) = lp_result)

\* C30 (amended): limit_payload_size always terminates and returns a prefix of
\* the input: the longest one whose serialized size is within the budget when
\* some prefix is, and the empty mapping when not even the empty list is within
\* the budget (max_size_kb = 0); an input within the budget is returned
\* unchanged, and applying the function to its own result returns that result.
C30_LongestPrefixOrEmpty ==
    /\ <>(lp_pc = "done")
    /\ [](lp_pc = "done" =>
            /\ Len(lp_result) <= Len(lp_products)
            /\ lp_result = SubSeq(lp_products, 1, Len(lp_result))
            /\ lp_result = limit_payload_size(lp_products, lp_max_size_kb)
            /\ IF \E n \in 0..Len(lp_products) : PrefixWithinBudget(n)
               THEN ResultIsLongestPrefix
               ELSE lp_result = <<>>
            /\ PrefixWithinBudget(Len(lp_products)) => lp_result = lp_products
            /\ limit_payload_size(lp_result, lp_max_size_kb) = lp_result)

\* products were dropped from the tail down to the longest prefix within budget
C30_Witness ==
    /\ lp_pc = "done"
    /\ lp_result # <<>>
    /\ Len(lp_result) + 2 <= Len(lp_products)
    /\ ResultIsLongestPrefix

\* a budget of 0 KB: the result is empty, and "[]" itself is over the budget
C30_WitnessZeroBudget ==
    /\ lp_pc = "done"
    /\ lp_max_size_kb = 0
    /\ lp_products # <<>>
    /\ lp_result = <<>>
    /\ ~PrefixWithinBudget(0)

----------------------------------------------------------------------------
(* Regionalization plugin and VTEXClient.get_region *)
(* Seller ids and rule-set names are plain strings here: the code only compares *)
(* them and looks them up as dict keys.                                         *)

NoDict == [k \in {} |-> <<>>]

\* the mappings tried as context.seller_rules: none, rule sets only, and rule sets
\* beside keys that are seller ids (the keys _apply_seller_rules looks sellers up in)
SellerRules ==
    { NoDict,
      [mooca_sellers |-> <<"a", "b">>, retirada_sellers |-> <<"a">>,
       entrega_sellers |-> <<"b">>],
      [k \in {"1", "a", "b", "retirada_sellers"} |->
          IF k = "retirada_sellers" THEN <<"a">> ELSE <<"x">>],
      [k \in {"1", "a", "retirada_sellers", "entrega_sellers"} |->
          CASE k = "entrega_sellers" -> <<"b">>
            [] k = "retirada_sellers" -> <<>>
            [] OTHER -> <<"x">>] }

DeliveryTypes == {"None", "Retirada", "Entrega"}

\* the JSON bodies of the regions endpoint: no region, a region without sellers,
\* with an empty seller list, with one seller and with two
RegionBodies ==
    { <<>>,
      <<[id |-> "r1"]>>,
      <<[id |-> "r1", sellers |-> <<>>]>>,
      <<[id |-> "r1", sellers |-> <<[id |-> "a"]>>]>>,
      <<[id |-> "r1", sellers |-> <<[id |-> "a"], [id |-> "b"]>>]>> }

\* the two messages of get_region, shortened; both are non-empty strings
MsgUnserved == "We don't serve your region."
MsgLookupError == "Error querying regionalization"

\* VTEXClient.get_region: (region_id, error_message, sellers)
get_region(http, regions_data) ==
    IF http.raised \/ http.status >= 400
    THEN [region_id |-> "None", error |-> MsgLookupError, sellers |-> <<>>]
    ELSE IF regions_data = <<>>
    THEN [region_id |-> "None", error |-> MsgUnserved, sellers |-> <<>>]
    ELSE LET region == regions_data[1]
             sellers == Get(region, "sellers", <<>>)
         IN  IF sellers = <<>>
             THEN [region_id |-> "None", error |-> MsgUnserved, sellers |-> <<>>]
             ELSE [region_id |-> Get(region, "id", "None"), error |-> "None",
                   sellers |-> [i \in DOMAIN sellers |-> Get(sellers[i], "id", "None")]]

\* Regionalization._apply_seller_rules
_apply_seller_rules(sellers, delivery_type, seller_rules) ==
    IF DOMAIN seller_rules = {} THEN sellers
    ELSE IF \A i \in DOMAIN sellers : sellers[i] \in DOMAIN seller_rules
    THEN IF delivery_type = "Retirada" THEN Get(seller_rules, "retirada_sellers", sellers)
         ELSE IF delivery_type = "Entrega"
         THEN Get(seller_rules, "entrega_sellers", sellers)
         ELSE sellers
    ELSE sellers

NoRegion == [called |-> FALSE]

RegionInit ==
    /\ rg_pc = "start"
    /\ rg_plugin \in [default_seller : {"1", "9"}, seller_rules : SellerRules]
    /\ rg_context \in [postal_code : {NoneVal, <<>>, <<"0">>},
                       delivery_type : DeliveryTypes,
                       seller_rules : SellerRules,
                       region_id : {"None"}, region_error : {"None"},
                       sellers : {<<>>}]
    /\ rg_region = NoRegion

RegionIdle ==
    /\ rg_pc = "start"
    /\ rg_plugin = [default_seller |-> "1", seller_rules |-> NoDict]
    /\ rg_context = [postal_code |-> NoneVal, delivery_type |-> "None",
                     seller_rules |-> NoDict, region_id |-> "None",
                     region_error |-> "None", sellers |-> <<>>]
    /\ rg_region = NoRegion

\* Regionalization.before_search; http and regions_data are the remote answer
before_search(http, regions_data) ==
    IF ~Truthy(rg_context.postal_code)
    THEN /\ rg_context' = [rg_context EXCEPT !.sellers = <<rg_plugin.default_seller>>]
         /\ rg_region' = NoRegion
    ELSE LET r == get_region(http, regions_data)
             sellers == IF r.error # "None" THEN <<rg_plugin.default_seller>>
                        ELSE r.sellers
         IN  /\ rg_context' =
                   [rg_context EXCEPT
                      !.region_id = r.region_id,
                      !.region_error = r.error,
                      !.sellers = _apply_seller_rules(sellers, rg_context.delivery_type,
                                                      rg_context.seller_rules)]
             /\ rg_region' = [called |-> TRUE, result |-> r]

BeforeSearch ==
    /\ rg_pc = "start"
    /\ rg_pc' = "done"
    /\ UNCHANGED rg_plugin
    /\ \E http \in HttpOutcomes, regions_data \in RegionBodies :
          before_search(http, regions_data)

\* a new search starts with a fresh context
NewSearch ==
    /\ rg_pc = "done"
    /\ rg_pc' = "start"
    /\ UNCHANGED rg_plugin
    /\ rg_context' \in [postal_code : {NoneVal, <<>>, <<"0">>},
                        delivery_type : DeliveryTypes,
                        seller_rules : SellerRules,
                        region_id : {"None"}, region_error : {"None"},
                        sellers : {<<>>}]
    /\ rg_region' = NoRegion

\* C7 as stated: when the region lookup yields an empty seller list, before_search
\* leaves context.sellers == [default_seller] and region_error non-null, for every
\* delivery_type and every context.seller_rules.
C7_DefaultSellerOnEmptyRegion ==
    (rg_pc = "done" /\ rg_region.called /\ rg_region.result.sellers = <<>>) =>
        /\ rg_context.sellers = <<rg_plugin.default_seller>>
        /\ rg_context.region_error # "None"

\* C8 as stated: after before_search context.sellers is non-empty in every case.
C8_SellersNonEmpty ==
    rg_pc = "done" => rg_context.sellers # <<>>

\* the sellers of the region all fall under the rules the plugin was built with
\* (the membership test of _apply_seller_rules, on self.seller_rules)
UnderConstructorRules ==
    /\ rg_region.called
    /\ rg_region.result.error = "None"
    /\ \A i \in DOMAIN rg_region.result.sellers :
          rg_region.result.sellers[i] \in DOMAIN rg_plugin.seller_rules

\* C25: the seller rules given to the constructor are applied by before_search:
\* when they contain retirada_sellers (resp. entrega_sellers) and the sellers of
\* the region fall under them, a search with delivery_type "Retirada" (resp.
\* "Entrega") ends with context.sellers equal to the configured list.
C25_ConstructorRulesApplied ==
    (rg_pc = "done" /\ UnderConstructorRules) =>
        /\ (rg_context.delivery_type = "Retirada"
              /\ "retirada_sellers" \in DOMAIN rg_plugin.seller_rules)
             => rg_context.sellers = rg_plugin.seller_rules.retirada_sellers
        /\ (rg_context.delivery_type = "Entrega"
              /\ "entrega_sellers" \in DOMAIN rg_plugin.seller_rules)
             => rg_context.sellers = rg_plugin.seller_rules.entrega_sellers

----------------------------------------------------------------------------
(* VTEXClient.batch_simulation *)

\* the defaults of max_quantity_per_seller and max_total_quantity
DefaultMaxPerSeller == 8000
DefaultMaxTotal == 24000

SellerIds == <<"a", "b", "c", "d", "e">>

\* quantity is an int (int(quantity) leaves it as it is)
Quantities == {1, 7, 3000, 10000, 30000}

\* (max_quantity_per_seller, max_total_quantity): the defaults, a small pair, and
\* a pair whose total is below the per-seller maximum
CapPairs == { <<DefaultMaxPerSeller, DefaultMaxTotal>>, <<10, 25>>, <<8000, 5000>> }

BatchArgs ==
    { [sku_id |-> "1", quantity |-> q, sellers |-> SubSeq(SellerIds, 1, n),
       max_quantity_per_seller |-> caps[1], max_total_quantity |-> caps[2]] :
      q \in Quantities, n \in 0..MaxSellers, caps \in CapPairs }

Min(a, b) == IF a <= b THEN a ELSE b

\* quantity_per_seller of batch_simulation
quantity_per_seller_uncapped(quantity, n, max_quantity_per_seller, max_total_quantity) ==
    IF n > 1 THEN Min(quantity * n, max_total_quantity) \div n ELSE quantity
quantity_per_seller_total_dropped(quantity, n, max_quantity_per_seller, max_total_quantity) ==
    Min(quantity, max_quantity_per_seller)
quantity_per_seller(quantity, n, max_quantity_per_seller, max_total_quantity) ==
    IF n > 1
    THEN LET total_quantity == Min(quantity * n, max_total_quantity)
         IN  Min(total_quantity \div n, max_quantity_per_seller)
    ELSE Min(quantity, max_quantity_per_seller)

\* the items of the request
BatchItems(args) ==
    [i \in DOMAIN args.sellers |->
        [id |-> args.sku_id,
         quantity |-> quantity_per_seller(args.quantity, Len(args.sellers),
                                          args.max_quantity_per_seller,
                                          args.max_total_quantity),
         seller |-> args.sellers[i]]]

\* the per-seller results of one SKU in a response; one lacks its quantity
BatchEntries ==
    { [sellerId |-> "a"],
      [sellerId |-> "a", quantity |-> 0],
      [sellerId |-> "a", quantity |-> 5],
      [sellerId |-> "b", quantity |-> 5],
      [sellerId |-> "b", quantity |-> 9] }

\* the JSON bodies of the batch endpoint: without data, with empty data, with data
\* for another SKU only, and with a list for the requested SKU
BatchBodies ==
    { NoDict, [data |-> NoDict], [data |-> [k \in {"2"} |-> <<[sellerId |-> "a", quantity |-> 5]>>]] }
    \cup { [data |-> [k \in {"1"} |-> es]] : es \in SeqUpTo(BatchEntries, MaxEntries) }

\* max(sku_simulations, key=lambda x: x.get("quantity", 0)): the first maximal entry
MaxByQuantity_first(sku_simulations) == sku_simulations[1]
MaxByQuantity(sku_simulations) ==
    LET q(i) == Get(sku_simulations[i], "quantity", 0)
        best == CHOOSE i \in DOMAIN sku_simulations :
                    /\ \A j \in DOMAIN sku_simulations : q(j) <= q(i)
                    /\ \A j \in 1..(i - 1) : q(j) < q(i)
    IN  sku_simulations[best]

ReturnsNone == [is_none |-> TRUE]

\* the value batch_simulation returns for a remote answer
BatchResult(sku_id, http, simulation_data) ==
    IF http.raised \/ http.status >= 400 THEN ReturnsNone
    ELSE LET data_content == Get(simulation_data, "data", NoDict)
         IN  IF DOMAIN data_content = {} THEN ReturnsNone
             ELSE LET sku_simulations == Get(data_content, sku_id, <<>>)
                  IN  IF sku_simulations = <<>> THEN ReturnsNone
                      ELSE Update(MaxByQuantity(sku_simulations), [is_none |-> FALSE])

NoResponse == [answered |-> FALSE]

BatchInit ==
    /\ bs_pc = "start"
    /\ bs_args \in BatchArgs
    /\ bs_items = <<>>
    /\ bs_response = NoResponse
    /\ bs_return = ReturnsNone

BatchIdle ==
    /\ bs_pc = "start"
    /\ bs_args = [sku_id |-> "1", quantity |-> 1, sellers |-> <<>>,
                  max_quantity_per_seller |-> DefaultMaxPerSeller,
                  max_total_quantity |-> DefaultMaxTotal]
    /\ bs_items = <<>>
    /\ bs_response = NoResponse
    /\ bs_return = ReturnsNone

\* batch_simulation: the request is built and posted, the answer is read
batch_simulation ==
    /\ bs_pc = "start"
    /\ bs_pc' = "done"
    /\ bs_items' = BatchItems(bs_args)
    /\ \E http \in HttpOutcomes, simulation_data \in BatchBodies :
          /\ bs_response' = [answered |-> TRUE, http |-> http, body |-> simulation_data]
          /\ bs_return' = BatchResult(bs_args.sku_id, http, simulation_data)
    /\ UNCHANGED bs_args

\* the next call
BatchAgain ==
    /\ bs_pc = "done"
    /\ bs_pc' = "start"
    /\ bs_args' \in BatchArgs
    /\ bs_items' = <<>>
    /\ bs_response' = NoResponse
    /\ bs_return' = ReturnsNone

RECURSIVE SumQuantity(_)
SumQuantity(items) ==
    IF items = <<>> THEN 0 ELSE Head(items).quantity + SumQuantity(Tail(items))

\* C9: batch_simulation builds one item per seller, in seller order, all with the
\* quantity min(min(quantity*n, max_total) div n, max_per_seller) for n >= 2 sellers
\* and min(quantity, max_per_seller) for one; 2 sellers, quantity 10000 and the
\* caps 8000/24000 give 8000 per item.
C9_QuantitySplit ==
    bs_pc = "done" =>
        LET n == Len(bs_args.sellers)
            q == bs_args.quantity
            mps == bs_args.max_quantity_per_seller
            mt == bs_args.max_total_quantity
            total == IF q * n <= mt THEN q * n ELSE mt
            share == IF total \div n <= mps THEN total \div n ELSE mps
            single == IF q <= mps THEN q ELSE mps
        IN  /\ Len(bs_items) = n
            /\ \A i \in 1..n :
                  /\ bs_items[i].seller = bs_args.sellers[i]
                  /\ bs_items[i].id = bs_args.sku_id
                  /\ n >= 2 => bs_items[i].quantity = share
                  /\ n = 1 => bs_items[i].quantity = single
            /\ (n = 2 /\ q = 10000 /\ mps = 8000 /\ mt = 24000)
                  => (bs_items[1].quantity = 8000 /\ bs_items[2].quantity = 8000)

\* the example of the claim: 2 sellers, quantity 10000, caps 8000/24000
C9_Witness ==
    /\ bs_pc = "done"
    /\ Len(bs_args.sellers) = 2
    /\ bs_args.quantity = 10000
    /\ bs_args.max_quantity_per_seller = 8000
    /\ bs_args.max_total_quantity = 24000
    /\ Len(bs_items) = 2

\* C10 as stated: for every n >= 1 each item's quantity is <= max_per_seller and
\* the sum of the quantities is <= max_total.
C10_BothCaps ==
    (bs_pc = "done" /\ Len(bs_args.sellers) >= 1) =>
        /\ \A i \in DOMAIN bs_items :
              bs_items[i].quantity <= bs_args.max_quantity_per_seller
        /\ SumQuantity(bs_items) <= bs_args.max_total_quantity

\* C10 (amended): for every n >= 1 each item's quantity is <= max_per_seller; for
\* n >= 2 the sum of the quantities is <= max_total; for n = 1 the one quantity
\* is min(quantity, max_per_seller), whatever max_total is.
C10_CapsBySellerCount ==
    (bs_pc = "done" /\ Len(bs_args.sellers) >= 1) =>
        /\ \A i \in DOMAIN bs_items :
              bs_items[i].quantity <= bs_args.max_quantity_per_seller
        /\ Len(bs_args.sellers) >= 2
              => SumQuantity(bs_items) <= bs_args.max_total_quantity
        /\ Len(bs_args.sellers) = 1
              => SumQuantity(bs_items)
                   = (IF bs_args.quantity <= bs_args.max_quantity_per_seller
                      THEN bs_args.quantity ELSE bs_args.max_quantity_per_seller)

\* three sellers whose shares are cut by the total, and not by the per-seller cap
C10_Witness ==
    /\ bs_pc = "done"
    /\ Len(bs_args.sellers) = 3
    /\ bs_args.quantity * 3 > bs_args.max_total_quantity
    /\ bs_items[1].quantity < bs_args.max_quantity_per_seller
    /\ bs_items[1].quantity < bs_args.quantity

\* the list of the requested SKU in the answer; empty when the request failed,
\* when the answer has no data and when the data has no list for the SKU
AnsweredEntries ==
    LET http == bs_response.http
        body == bs_response.body
    IN  IF http.raised \/ http.status \notin 200..299 THEN <<>>
        ELSE IF "data" \notin DOMAIN body THEN <<>>
        ELSE IF bs_args.sku_id \notin DOMAIN body.data THEN <<>>
        ELSE body.data[bs_args.sku_id]

\* the quantity of an entry, 0 when it has none
EntryQuantity(entry) == IF "quantity" \in DOMAIN entry THEN entry.quantity ELSE 0

\* the entry batch_simulation returned
ReturnedEntry == [k \in DOMAIN bs_return \ {"is_none"} |-> bs_return[k]]

\* C13: after a successful answer batch_simulation returns an entry of the list
\* of the requested SKU whose quantity (0 when missing) no other entry of the list
\* exceeds; it returns None when the answer has no data, when the SKU has no
\* entries and when the request fails, in which case it returns and does not raise.
C13_BestEntry ==
    bs_pc = "done" =>
        IF AnsweredEntries = <<>> THEN bs_return.is_none
        ELSE /\ ~bs_return.is_none
             /\ \E i \in DOMAIN AnsweredEntries :
                   /\ AnsweredEntries[i] = ReturnedEntry
                   /\ \A j \in DOMAIN AnsweredEntries :
                         EntryQuantity(AnsweredEntries[j]) <= EntryQuantity(ReturnedEntry)

\* an answer whose second entry has the larger quantity, and is returned
C13_Witness ==
    /\ bs_pc = "done"
    /\ Len(AnsweredEntries) = 2
    /\ EntryQuantity(AnsweredEntries[1]) < EntryQuantity(AnsweredEntries[2])
    /\ ReturnedEntry = AnsweredEntries[2]

\* a failed request after which None is returned
C13_WitnessFailure ==
    /\ bs_pc = "done"
    /\ bs_response.http.status = 500
    /\ "data" \in DOMAIN bs_response.body
    /\ bs_return.is_none

\* C14 as stated: called with an empty seller list batch_simulation returns None,
\* whatever the remote service answers.
C14_NoSellersNone ==
    (bs_pc = "done" /\ bs_args.sellers = <<>>) => bs_return.is_none

----------------------------------------------------------------------------
(* VTEXClient.cart_simulation *)

\* the items of a request: with a seller, and with None for seller
RequestItems ==
    { [id |-> <<"1">>, quantity |-> 1, seller |-> <<"1">>],
      [id |-> <<"2">>, quantity |-> 3, seller |-> NoneVal] }

\* postal_code is None, the empty str or a str
CartArgs == [ items : SeqUpTo(RequestItems, MaxItems),
              country : {"BRA", "ARG"},
              postal_code : {NoneVal, <<>>, <<"0">>} ]

\* the JSON bodies of the simulation endpoint: no item, or one item
CartAnswers == { [items |-> <<>>] } \cup { [items |-> <<item>>] : item \in CartItems }

\* payload of cart_simulation
CartPayload(args) ==
    IF Truthy(args.postal_code)
    THEN [items |-> args.items, country |-> args.country, postalCode |-> args.postal_code]
    ELSE [items |-> args.items, country |-> args.country]

CartInit ==
    /\ cs_pc = "start"
    /\ cs_args \in CartArgs
    /\ cs_payload = EmptyDict
    /\ cs_response = NoResponse
    /\ cs_return = EmptyDict

CartIdle ==
    /\ cs_pc = "start"
    /\ cs_args = [items |-> <<>>, country |-> "BRA", postal_code |-> NoneVal]
    /\ cs_payload = EmptyDict
    /\ cs_response = NoResponse
    /\ cs_return = EmptyDict

\* cart_simulation: the request is posted and the answer read; a failure of the
\* request is a RequestException, which the function catches
CartSimulation ==
    /\ cs_pc = "start"
    /\ cs_pc' = "done"
    /\ cs_payload' = CartPayload(cs_args)
    /\ \E http \in HttpOutcomes, body \in CartAnswers :
          /\ cs_response' = [answered |-> TRUE, http |-> http, body |-> body]
          /\ cs_return' = cart_simulation(http, body)
    /\ UNCHANGED cs_args

\* the next call
CartAgain ==
    /\ cs_pc = "done"
    /\ cs_pc' = "start"
    /\ cs_args' \in CartArgs
    /\ cs_payload' = EmptyDict
    /\ cs_response' = NoResponse
    /\ cs_return' = EmptyDict

\* the request timed out or found no connection, or its answer is not a 2xx
CartRequestFailed ==
    cs_response.http.raised \/ cs_response.http.status \notin 200..299

C15_WitnessRaised ==
    /\ cs_pc = "done"
    /\ cs_response.http.raised
    /\ cs_return = [items |-> <<>>]

----------------------------------------------------------------------------
(* VTEXClient.get_orders_by_document *)

OrderIds == {"o1", "o2"}

\* the JSON bodies of the orders endpoint: {}, a body without "list", and bodies
\* with a list of orders
OrdersBodies ==
    { NoDict, [paging |-> "1"] } \cup { [list |-> l] : l \in SeqUpTo(OrderIds, MaxOrders) }

\* document is a str, possibly empty
OrdersArgs == [ document : {"", "123"}, incomplete_orders : BOOLEAN ]

\* str(incomplete_orders).lower()
BoolParam(b) == IF b THEN "true" ELSE "false"

\* the complete orders: the body of a 2xx answer, {"list": []} otherwise
CompleteOrders(http, body) ==
    IF http.raised \/ http.status >= 400 THEN [list |-> <<>>] ELSE body

\* orders_data after the second request: the list of a 2xx answer that has one is
\* appended to orders_data["list"], which is created when missing
MergeIncomplete(orders_data, http, body) ==
    IF http.raised \/ http.status >= 400 THEN orders_data
    ELSE IF "list" \notin DOMAIN body THEN orders_data
    ELSE DictSet(orders_data, "list", Get(orders_data, "list", <<>>) \o body.list)

OrdersInit ==
    /\ od_pc = "start"
    /\ od_args \in OrdersArgs
    /\ od_requests = <<>>
    /\ od_return = NoDict

OrdersIdle ==
    /\ od_pc = "start"
    /\ od_args = [document |-> "", incomplete_orders |-> FALSE]
    /\ od_requests = <<>>
    /\ od_return = NoDict

\* get_orders_by_document: without a document {"list": []}; otherwise the request
\* of the complete orders, then the request with the incompleteOrders parameter
get_orders_by_document ==
    /\ od_pc = "start"
    /\ od_pc' = "done"
    /\ IF od_args.document = ""
       THEN /\ od_requests' = <<>>
            /\ od_return' = [list |-> <<>>]
       ELSE \E http \in HttpOutcomes, body \in OrdersBodies,
               http_incomplete \in HttpOutcomes, body_incomplete \in OrdersBodies :
               /\ od_requests' =
                     << [q |-> od_args.document, incompleteOrders |-> "absent",
                         http |-> http, body |-> body],
                        [q |-> od_args.document,
                         incompleteOrders |-> BoolParam(od_args.incomplete_orders),
                         http |-> http_incomplete, body |-> body_incomplete] >>
               /\ od_return' = MergeIncomplete(CompleteOrders(http, body),
                                               http_incomplete, body_incomplete)
    /\ UNCHANGED od_args

\* the next call
OrdersAgain ==
    /\ od_pc = "done"
    /\ od_pc' = "start"
    /\ od_args' \in OrdersArgs
    /\ od_requests' = <<>>
    /\ od_return' = NoDict

\* the requests that carry the incompleteOrders parameter
IncompleteRequests ==
    { i \in DOMAIN od_requests : od_requests[i].incompleteOrders # "absent" }

\* the list of the complete orders, as the first request was answered
CompleteList ==
    LET r == od_requests[1]
    IN  IF r.http.raised \/ r.http.status \notin 200..299 THEN <<>>
        ELSE Get(r.body, "list", <<>>)

\* C17 as stated: the incomplete-orders request is issued only when incomplete
\* orders are asked for; without them only the complete-orders request is issued
\* and the returned list is exactly the list of the complete orders, with no
\* order twice.
C17_IncompleteOnlyOnRequest ==
    (od_pc = "done" /\ od_args.document # "" /\ ~od_args.incomplete_orders) =>
        /\ IncompleteRequests = {}
        /\ Len(od_requests) = 1
        /\ Get(od_return, "list", <<>>) = CompleteList

----------------------------------------------------------------------------
(* VTEXClient.__init__ *)

\* A URL is the concatenation of a sequence of pieces of text; no piece is a
\* suffix or a prefix of another, so that startswith and endswith of the text
\* are startswith and endswith of the sequence.  "shop" is a DNS label.
UrlPieces ==
    {"https://", "http://", "shop", ".", "vtexcommercestable.com.br", "myvtex.com", "/"}

BaseUrls == SeqUpTo(UrlPieces, MaxUrlPieces)

StoreUrls ==
    { <<>>, <<"https://", "shop">>, <<"https://", "shop", "/">>, <<"http://", "shop">> }

\* str.startswith(prefix)
StartsWith(s, prefix) ==
    Len(s) >= Len(prefix) /\ SubSeq(s, 1, Len(prefix)) = prefix

\* str.endswith(suffix)
EndsWith(s, suffix) ==
    Len(s) >= Len(suffix) /\ SubSeq(s, Len(s) - Len(suffix) + 1, Len(s)) = suffix

\* str.rstrip("/")
RECURSIVE RStripSlash(_)
RStripSlash(s) ==
    IF s # <<>> /\ s[Len(s)] = "/" THEN RStripSlash(SubSeq(s, 1, Len(s) - 1)) ELSE s

S_https == <<"https://">>

\* the two suffixes of the endswith test
S_dot_vtexcommercestable == <<".", "vtexcommercestable.com.br">>
S_myvtex == <<"myvtex.com">>

\* _validate_base_url_and_store_url, of the stripped URLs
_validate_base_url_and_store_url(base_url, store_url) ==
    IF base_url = <<>> \/ store_url = <<>> THEN FALSE
    ELSE IF ~StartsWith(base_url, S_https) \/ ~StartsWith(store_url, S_https) THEN FALSE
    ELSE IF ~(EndsWith(base_url, S_dot_vtexcommercestable) \/ EndsWith(base_url, S_myvtex))
         THEN FALSE
    ELSE TRUE

NoClient == [exists |-> FALSE]

ClientInit ==
    /\ vc_pc = "start"
    /\ vc_args \in [base_url : BaseUrls, store_url : StoreUrls]
    /\ vc_client = NoClient

ClientIdle ==
    /\ vc_pc = "start"
    /\ vc_args = [base_url |-> <<>>, store_url |-> <<>>]
    /\ vc_client = NoClient

\* VTEXClient.__init__: the URLs are stripped and validated; ValueError is raised
\* for invalid ones, and no object comes to exist
VTEXClient_init ==
    /\ vc_pc = "start"
    /\ LET base_url == RStripSlash(vc_args.base_url)
           store_url == RStripSlash(vc_args.store_url)
       IN  IF ~_validate_base_url_and_store_url(base_url, store_url)
           THEN /\ vc_pc' = "raised"
                /\ vc_client' = NoClient
           ELSE /\ vc_pc' = "built"
                /\ vc_client' = [exists |-> TRUE, base_url |-> base_url,
                                 store_url |-> store_url]
    /\ UNCHANGED vc_args

\* the host of a URL: the text between the scheme and the first "/"
RECURSIVE UpToSlash(_)
UpToSlash(s) ==
    IF s = <<>> \/ Head(s) = "/" THEN <<>> ELSE <<Head(s)>> \o UpToSlash(Tail(s))

UrlHost(url) ==
    IF url # <<>> /\ Head(url) \in {"https://", "http://"} THEN UpToSlash(Tail(url))
    ELSE UpToSlash(url)

\* the host is the domain or one of its subdomains
HostUnder(host, domain) == host = <<domain>> \/ EndsWith(host, <<".", domain>>)

\* C18 as stated: construction raises ValueError whenever base_url or store_url is
\* no https:// URL or the host of base_url is not under vtexcommercestable.com.br
\* or myvtex.com: a client exists only for https URLs whose base host is under
\* one of the two domains.
C18_ClientOnlyForPlatformHost ==
    vc_client.exists =>
        /\ vc_pc = "built"
        /\ StartsWith(vc_args.base_url, S_https)
        /\ StartsWith(vc_args.store_url, S_https)
        /\ \/ HostUnder(UrlHost(vc_args.base_url), "vtexcommercestable.com.br")
           \/ HostUnder(UrlHost(vc_args.base_url), "myvtex.com")

----------------------------------------------------------------------------
(* PluginBase *)

\* An argument of a hook is an object: id is its identity, the other fields its
\* content.  Returning the object received keeps both; a copy has another id.

HookNames ==
    <<"before_search", "after_search", "after_stock_check", "enrich_products",
      "finalize_result">>

HookContexts == [ id : {"context"}, region_id : {"None", "r1"}, sellers : {<<>>, <<"1">>} ]

\* products, products_with_stock or result
HookValues == [ id : {"value"}, content : {<<>>, <<"a">>, <<"b">>, <<"a", "b">>} ]

\* the calls of a hook: before_search has the context as its first argument
HookCalls ==
    { [hook |-> "before_search", value |-> c, context |-> c] : c \in HookContexts }
    \cup [ hook : {"after_search", "after_stock_check", "enrich_products",
                   "finalize_result"},
           value : HookValues, context : HookContexts ]

\* The five hooks of PluginBase: the object returned, and the first argument and
\* the context as the call leaves them.
PluginBase_before_search(context, client) ==
    [returned |-> context, value |-> context, context |-> context]

PluginBase_after_search_copy(products, context, client) ==
    [returned |-> [id |-> "copy", content |-> products.content],
     value |-> products, context |-> context]
PluginBase_after_search(products, context, client) ==
    [returned |-> products, value |-> products, context |-> context]

PluginBase_after_stock_check(products_with_stock, context, client) ==
    [returned |-> products_with_stock, value |-> products_with_stock,
     context |-> context]

PluginBase_enrich_products(products, context, client) ==
    [returned |-> products, value |-> products, context |-> context]

PluginBase_finalize_result(result, context) ==
    [returned |-> result, value |-> result, context |-> context]

NoCallYet == [returned |-> "None"]

HooksInit ==
    /\ hk_pc = "start"
    /\ hk_call \in HookCalls
    /\ hk_after = NoCallYet

HooksIdle ==
    /\ hk_pc = "start"
    /\ hk_call = [hook |-> "before_search",
                  value |-> [id |-> "context", region_id |-> "None", sellers |-> <<>>],
                  context |-> [id |-> "context", region_id |-> "None", sellers |-> <<>>]]
    /\ hk_after = NoCallYet

\* one call of a hook that the plugin does not override
DefaultHook ==
    /\ hk_pc = "start"
    /\ hk_pc' = "done"
    /\ hk_after' =
          CASE hk_call.hook = "before_search" ->
                  PluginBase_before_search(hk_call.context, "client")
            [] hk_call.hook = "after_search" ->
                  PluginBase_after_search(hk_call.value, hk_call.context, "client")
            [] hk_call.hook = "after_stock_check" ->
                  PluginBase_after_stock_check(hk_call.value, hk_call.context, "client")
            [] hk_call.hook = "enrich_products" ->
                  PluginBase_enrich_products(hk_call.value, hk_call.context, "client")
            [] hk_call.hook = "finalize_result" ->
                  PluginBase_finalize_result(hk_call.value, hk_call.context)
    /\ UNCHANGED hk_call

\* the next call
HookAgain ==
    /\ hk_pc = "done"
    /\ hk_pc' = "start"
    /\ hk_call' \in HookCalls
    /\ hk_after' = NoCallYet

\* C19: each of the five hooks of PluginBase returns the very object it received
\* as first argument, and leaves that object and the context as they were.
C19_DefaultPassThrough ==
    hk_pc = "done" =>
        /\ hk_after.returned = hk_call.value
        /\ hk_after.value = hk_call.value
        /\ hk_after.context = hk_call.context

\* after_search was called with products
C19_Witness ==
    /\ hk_pc = "done"
    /\ hk_call.hook = "after_search"
    /\ hk_call.value.content # <<>>
    /\ hk_after.returned.id = "value"

----------------------------------------------------------------------------
(* ProductConcierge.search *)

\* The steps of one search: the five hook stages, and between them the steps of
\* the orchestrator itself.
PipelineSteps ==
    <<"before_search", "intelligent_search", "after_search", "check_availability",
      "after_stock_check", "filter_products_with_stock", "enrich_products",
      "limit_payload_size", "finalize_result">>

IsHookStage(step) == \E h \in DOMAIN HookNames : HookNames[h] = step

PipelineDone == Len(PipelineSteps) + 1

\* the kinds of plugin: one that overrides no hook, one that overrides every
\* hook, and one that overrides finalize_result only
PluginKinds == {"base", "all", "finalize"}

PluginLists == SeqUpTo(PluginKinds, MaxPlugins)

\* the hook of the plugin registered at a position: the default returns the
\* value, an override returns it with the plugin's mark added
InvokeHook(kind, position, stage, value) ==
    IF kind = "all" \/ (kind = "finalize" /\ stage = "finalize_result")
    THEN Append(value, [stage |-> stage, plugin |-> position])
    ELSE value

\* the value a plugin receives: what the plugin before it returned
HookInput_stage(stage_input, previous) == stage_input
HookInput(stage_input, previous) == previous

\* the position of the pipeline from step p on: without plugins the hook stages
\* have nothing to run
RECURSIVE Settle(_, _)
Settle(p, plugins) ==
    IF p < PipelineDone /\ plugins = <<>> /\ IsHookStage(PipelineSteps[p])
    THEN Settle(p + 1, plugins)
    ELSE p

PipelineInit ==
    /\ pl_plugins \in PluginLists
    /\ pl_pc = Settle(1, pl_plugins)
    /\ pl_i = 1
    /\ pl_input = <<>>
    /\ pl_value = <<>>
    /\ pl_log = <<>>

PipelineIdle ==
    /\ pl_plugins = <<>>
    /\ pl_pc = PipelineDone
    /\ pl_i = 1
    /\ pl_input = <<>>
    /\ pl_value = <<>>
    /\ pl_log = <<>>

\* one plugin's hook of the current stage
PipelineHook ==
    /\ pl_pc < PipelineDone
    /\ IsHookStage(PipelineSteps[pl_pc])
    /\ pl_i <= Len(pl_plugins)
    /\ LET stage == PipelineSteps[pl_pc]
           received == IF pl_i = 1 THEN pl_input ELSE HookInput(pl_input, pl_value)
           returned == InvokeHook(pl_plugins[pl_i], pl_i, stage, received)
       IN  /\ pl_log' = Append(pl_log, [stage |-> stage, plugin |-> pl_i,
                                       received |-> received, returned |-> returned])
           /\ pl_value' = returned
           /\ IF pl_i < Len(pl_plugins)
              THEN /\ pl_i' = pl_i + 1
                   /\ UNCHANGED <<pl_pc, pl_input>>
              ELSE /\ pl_i' = 1
                   /\ pl_pc' = pl_pc + 1
                   /\ pl_input' = returned
    /\ UNCHANGED pl_plugins

\* a step of the orchestrator itself: it works on the value of the stage before
PipelineStep ==
    /\ pl_pc < PipelineDone
    /\ ~IsHookStage(PipelineSteps[pl_pc])
    /\ pl_value' = Append(pl_value, [stage |-> PipelineSteps[pl_pc], plugin |-> 0])
    /\ pl_input' = pl_value'
    /\ pl_pc' = Settle(pl_pc + 1, pl_plugins)
    /\ UNCHANGED <<pl_plugins, pl_i, pl_log>>

\* the next search of the same concierge
PipelineAgain ==
    /\ pl_pc = PipelineDone
    /\ pl_pc' = Settle(1, pl_plugins)
    /\ pl_i' = 1
    /\ pl_input' = <<>>
    /\ pl_value' = <<>>
    /\ pl_log' = <<>>
    /\ UNCHANGED pl_plugins

\* C20: in every search run the hook stages occur in the order before_search,
\* after_search, after_stock_check, enrich_products, finalize_result; within a
\* stage every registered plugin is invoked exactly once, in registration order,
\* and each plugin receives the value the plugin before it returned.
C20_HookOrder ==
    LET n == Len(pl_plugins)
    IN  /\ \A k \in DOMAIN pl_log :
              /\ pl_log[k].stage = HookNames[((k - 1) \div n) + 1]
              /\ pl_log[k].plugin = ((k - 1) % n) + 1
              /\ pl_log[k].plugin > 1 => pl_log[k].received = pl_log[k - 1].returned
        /\ Len(pl_log) <= 5 * n
        /\ pl_pc = PipelineDone => Len(pl_log) = 5 * n

\* a finished run of two plugins or more, one of which changed the value it got
C20_Witness ==
    /\ pl_pc = PipelineDone
    /\ Len(pl_plugins) >= 2
    /\ Len(pl_log) = 5 * Len(pl_plugins)
    /\ \E k \in DOMAIN pl_log :
          /\ pl_log[k].plugin > 1
          /\ pl_log[k].received # pl_log[k - 1].received

----------------------------------------------------------------------------
(* Wholesale *)

\* the (seller_id, sku_id) pairs looked up; ids hold no ":"
PricePairs == { <<"1", "10">>, <<"2", "10">> }

\* cache_key: f"{seller_id}:{sku_id}", a str as a sequence of its parts
CacheKey(seller_id, sku_id) == <<seller_id, ":", sku_id>>

\* the bodies of the fixed price endpoint: two prices, a dict without the two
\* fields, a JSON value that is no dict, and a body that is no JSON
PriceBodies ==
    { [is_json |-> TRUE, is_dict |-> TRUE, data |-> [minQuantity |-> "5", value |-> "100"]],
      [is_json |-> TRUE, is_dict |-> TRUE, data |-> [minQuantity |-> "7", value |-> "200"]],
      [is_json |-> TRUE, is_dict |-> TRUE, data |-> NoDict],
      [is_json |-> TRUE, is_dict |-> FALSE, data |-> NoDict],
      [is_json |-> FALSE, is_dict |-> FALSE, data |-> NoDict] }

default_response == [minQuantity |-> "None", valueAtacado |-> "None"]

\* result of _get_fixed_price for the body of a 200 answer
FixedPriceResult(body) ==
    [minQuantity |-> IF body.is_dict THEN Get(body.data, "minQuantity", "None") ELSE "None",
     valueAtacado |-> IF body.is_dict THEN Get(body.data, "value", "None") ELSE "None"]

\* the request got a 200 answer whose body response.json() parses
PriceAnswered(http, body) == ~http.raised /\ http.status = 200 /\ body.is_json

\* self._cache after a request: only the result of a 200 answer is saved
CacheAfter_always(cache, key, http, body) ==
    DictSet(cache, key, IF PriceAnswered(http, body) THEN FixedPriceResult(body)
                        ELSE default_response)
CacheAfter(cache, key, http, body) ==
    IF PriceAnswered(http, body) THEN DictSet(cache, key, FixedPriceResult(body)) ELSE cache

WholesaleInit ==
    /\ ws_cache = NoDict
    /\ ws_log = <<>>

WholesaleIdle ==
    /\ ws_cache = NoDict
    /\ ws_log = <<>>

\* _get_fixed_price: the cached value when the key is cached, a request otherwise
_get_fixed_price ==
    /\ Len(ws_log) < MaxLookups
    /\ \E pair \in PricePairs :
          LET cache_key == CacheKey(pair[1], pair[2])
          IN  IF cache_key \in DOMAIN ws_cache
              THEN /\ ws_log' = Append(ws_log,
                         [op |-> "lookup", pair |-> pair, requested |-> FALSE,
                          answered |-> FALSE, returned |-> ws_cache[cache_key]])
                   /\ UNCHANGED ws_cache
              ELSE \E http \in HttpOutcomes, body \in PriceBodies :
                      /\ ws_log' = Append(ws_log,
                            [op |-> "lookup", pair |-> pair, requested |-> TRUE,
                             answered |-> PriceAnswered(http, body),
                             returned |-> IF PriceAnswered(http, body)
                                          THEN FixedPriceResult(body)
                                          ELSE default_response])
                      /\ ws_cache' = CacheAfter(ws_cache, cache_key, http, body)

\* clear_cache
clear_cache ==
    /\ Len(ws_log) < MaxLookups
    /\ ws_cache' = NoDict
    /\ ws_log' = Append(ws_log,
          [op |-> "clear", pair |-> <<"", "">>, requested |-> FALSE,
           answered |-> FALSE, returned |-> default_response])

\* no clear_cache between the entries j and k of the log
NoClearBetween(j, k) == \A c \in (j + 1)..(k - 1) : ws_log[c].op # "clear"

\* entry k is a lookup of the pair of the lookup j
SamePairLater(j, k) ==
    j < k /\ ws_log[j].op = "lookup" /\ ws_log[k].op = "lookup"
    /\ ws_log[j].pair = ws_log[k].pair

\* C21: once a lookup of a (seller, sku) pair has succeeded, every later lookup
\* of the pair returns the same value without a request until clear_cache(); a
\* failed lookup returns minQuantity None and valueAtacado None, is not cached,
\* and the next lookup of the pair issues a request again.
C21_CachedUntilCleared ==
    \A j, k \in DOMAIN ws_log :
        /\ (SamePairLater(j, k) /\ ws_log[j].requested /\ ws_log[j].answered
              /\ NoClearBetween(j, k))
             => (~ws_log[k].requested /\ ws_log[k].returned = ws_log[j].returned)
        /\ (ws_log[k].op = "lookup" /\ ws_log[k].requested /\ ~ws_log[k].answered)
             => ws_log[k].returned = default_response
        /\ (SamePairLater(j, k) /\ ws_log[j].requested /\ ~ws_log[j].answered
              /\ \A m \in (j + 1)..(k - 1) : ~SamePairLater(j, m))
             => ws_log[k].requested

\* a failed lookup, then a successful lookup of the pair, a cached one, a
\* clear_cache
C21_Witness ==
    /\ Len(ws_log) >= 4
    /\ ws_log[1].op = "lookup" /\ ws_log[1].requested /\ ~ws_log[1].answered
    /\ SamePairLater(1, 2) /\ ws_log[2].answered
    /\ ws_log[2].returned.minQuantity = "5"
    /\ SamePairLater(2, 3) /\ ~ws_log[3].requested
    /\ ws_log[4].op = "clear"

----------------------------------------------------------------------------
(* OrderConcierge._convert_cents *)

\* A JSON value carries its type: a dict is the sequence of its entries, in
\* order; a number is held in hundredths, so that an int of cents and the
\* currency amount it converts to are both exact.

currency_fields ==
    << <<"t", "o", "t", "a", "l", "V", "a", "l", "u", "e">>,
       <<"v", "a", "l", "u", "e">>,
       <<"t", "o", "t", "a", "l", "s">>,
       <<"i", "t", "e", "m", "P", "r", "i", "c", "e">>,
       <<"s", "e", "l", "l", "i", "n", "g", "P", "r", "i", "c", "e">>,
       <<"p", "r", "i", "c", "e">>,
       <<"l", "i", "s", "t", "P", "r", "i", "c", "e">>,
       <<"c", "o", "s", "t", "P", "r", "i", "c", "e">>,
       <<"b", "a", "s", "e", "P", "r", "i", "c", "e">>,
       <<"f", "i", "x", "e", "d", "P", "r", "i", "c", "e">>,
       <<"s", "h", "i", "p", "p", "i", "n", "g", "E", "s", "t", "i", "m", "a", "t", "e">>,
       <<"t", "a", "x">>,
       <<"d", "i", "s", "c", "o", "u", "n", "t">>,
       <<"t", "o", "t", "a", "l">>,
       <<"s", "u", "b", "t", "o", "t", "a", "l">>,
       <<"f", "r", "e", "i", "g", "h", "t">>,
       <<"m", "a", "r", "k", "e", "t", "i", "n", "g", "D", "a", "t", "a">>,
       <<"p", "a", "y", "m", "e", "n", "t", "D", "a", "t", "a">> >>

K_price == <<"p", "r", "i", "c", "e">>
K_listPrice == <<"l", "i", "s", "t", "P", "r", "i", "c", "e">>
K_totalValue == <<"t", "o", "t", "a", "l", "V", "a", "l", "u", "e">>
K_shippingEstimate == <<"s", "h", "i", "p", "p", "i", "n", "g", "E", "s", "t", "i", "m", "a", "t", "e">>
K_quantity == <<"q", "u", "a", "n", "t", "i", "t", "y">>
K_name == <<"n", "a", "m", "e">>
K_items == <<"i", "t", "e", "m", "s">>
K_totals == <<"t", "o", "t", "a", "l", "s">>

\* the int v
IntValue(v) == [t |-> "num", hundredths |-> 100 * v]

\* the values that are neither dict nor list: two ints, None and a str
ScalarValues == { IntValue(1000), IntValue(550), [t |-> "none"], [t |-> "str", s |-> "Item 1"] }

ScalarKeys == { K_price, K_listPrice, K_totalValue, K_shippingEstimate, K_quantity, K_name }

ScalarEntries == [ key : ScalarKeys, value : ScalarValues ]

\* dicts of scalar fields, keys distinct
ScalarDicts ==
    { [t |-> "dict", items |-> es] :
        es \in { s \in SeqUpTo(ScalarEntries, MaxFields) :
                   \A i, j \in DOMAIN s : i # j => s[i].key # s[j].key } }

\* records of nesting depth d: a dict of scalar fields, or a dict with one field
\* holding a record of depth d - 1, as it is or as the item of a list, after an
\* optional numeric field
RECURSIVE NestedRecords(_)
NestedRecords(d) ==
    IF d = 0 THEN ScalarDicts
    ELSE LET inner == NestedRecords(d - 1)
             holders == inner \cup { [t |-> "list", items |-> <<r>>] : r \in inner }
             heads == { <<>>, <<[key |-> K_totalValue, value |-> IntValue(1550)]>> }
         IN  ScalarDicts \cup
             { [t |-> "dict", items |-> h \o <<[key |-> k, value |-> v]>>] :
                 h \in heads, k \in {K_items, K_totals}, v \in holders }

\* any(field in key.lower() for field in currency_fields)
KeyHasCurrencyField(key) ==
    \E f \in DOMAIN currency_fields : Contains(Lower(key), currency_fields[f])

\* round(value / 100, 2) of a number held in hundredths
RoundedCents(value) == [t |-> "num", hundredths |-> (value.hundredths + 50) \div 100]

RECURSIVE _convert_cents(_)
_convert_cents(data) ==
    IF data.t = "dict"
    THEN [t |-> "dict",
          items |-> [i \in DOMAIN data.items |->
             LET key == data.items[i].key
                 value == data.items[i].value
             IN  [key |-> key,
                  value |-> IF value.t \in {"dict", "list"} THEN _convert_cents(value)
                            ELSE IF value.t = "num" /\ KeyHasCurrencyField(key)
                                 THEN RoundedCents(value)
                            ELSE value]]]
    ELSE IF data.t = "list"
    THEN [t |-> "list", items |-> [i \in DOMAIN data.items |-> _convert_cents(data.items[i])]]
    ELSE data

NotConverted == [t |-> "none"]

CentsInit ==
    /\ cc_pc = "start"
    /\ cc_data \in NestedRecords(MaxDepth)
    /\ cc_converted = NotConverted

CentsIdle ==
    /\ cc_pc = "start"
    /\ cc_data = [t |-> "dict", items |-> <<>>]
    /\ cc_converted = NotConverted

\* one call of _convert_cents
ConvertCents ==
    /\ cc_pc = "start"
    /\ cc_pc' = "done"
    /\ cc_converted' = _convert_cents(cc_data)
    /\ UNCHANGED cc_data

\* the key is one of the currency field names
IsCurrencyFieldName(key) == \E f \in DOMAIN currency_fields : currency_fields[f] = key

\* out is what the claim asks of the conversion of inp: a numeric field whose key
\* is a currency field name is divided by 100; a numeric field whose key holds no
\* currency field name, None and every non-numeric value are unchanged; keys and
\* list lengths are kept, at every depth
RECURSIVE ConvertedAsClaimed(_, _)
ConvertedAsClaimed(inp, out) ==
    IF inp.t = "dict"
    THEN /\ out.t = "dict"
         /\ Len(out.items) = Len(inp.items)
         /\ \A i \in DOMAIN inp.items :
               LET key == inp.items[i].key
                   value == inp.items[i].value
                   got == out.items[i].value
               IN  /\ out.items[i].key = key
                   /\ IF value.t \in {"dict", "list"} THEN ConvertedAsClaimed(value, got)
                      ELSE IF value.t # "num" THEN got = value
                      ELSE /\ IsCurrencyFieldName(key)
                                => (got.t = "num" /\ got.hundredths * 100 = value.hundredths)
                           /\ ~KeyHasCurrencyField(key) => got = value
    ELSE IF inp.t = "list"
    THEN /\ out.t = "list"
         /\ Len(out.items) = Len(inp.items)
         /\ \A i \in DOMAIN inp.items : ConvertedAsClaimed(inp.items[i], out.items[i])
    ELSE out = inp

\* C22 as stated: _convert_cents divides by 100 exactly the numeric fields whose
\* key is a known currency field name, at every depth, and returns every other
\* field unchanged, with the key set and the list lengths preserved.
C22_ConvertsCurrencyFields ==
    cc_pc = "done" => ConvertedAsClaimed(cc_data, cc_converted)

----------------------------------------------------------------------------
(* OrderConcierge.get_order_details *)

JsonNone == [t |-> "none"]

\* get_order_by_id: None without an order id and after a failed request, the
\* body of a 2xx answer otherwise
get_order_by_id(order_id, http, body) ==
    IF order_id = "" THEN JsonNone
    ELSE IF http.raised \/ http.status >= 400 THEN JsonNone
    ELSE body

\* `if not order_data`: None, or a dict without entries
OrderMissing_never(order_data) == FALSE
OrderMissing(order_data) ==
    order_data = JsonNone \/ (order_data.t = "dict" /\ order_data.items = <<>>)

\* the mapping get_order_details returns; now is the formatted current time
OrderDetails(order_data, now) ==
    IF OrderMissing(order_data)
    THEN [error |-> "Order not found", order |-> JsonNone]
    ELSE [order |-> _convert_cents(order_data), current_time |-> now]

DetailsInit ==
    /\ gd_pc = "start"
    /\ gd_order_id \in {"", "1"}
    /\ gd_response = NoResponse
    /\ gd_return = EmptyDict

DetailsIdle ==
    /\ gd_pc = "start"
    /\ gd_order_id = ""
    /\ gd_response = NoResponse
    /\ gd_return = EmptyDict

\* get_order_details: the order is fetched, and converted when there is one
get_order_details ==
    /\ gd_pc = "start"
    /\ gd_pc' = "done"
    /\ IF gd_order_id = ""
       THEN /\ gd_response' = NoResponse
            /\ gd_return' =
                  OrderDetails(get_order_by_id(gd_order_id, [raised |-> FALSE, status |-> 200],
                                               JsonNone), "t1")
       ELSE \E http \in HttpOutcomes, body \in ScalarDicts, now \in {"t1", "t2"} :
               /\ gd_response' = [answered |-> TRUE, http |-> http, body |-> body]
               /\ gd_return' = OrderDetails(get_order_by_id(gd_order_id, http, body), now)
    /\ UNCHANGED gd_order_id

\* the next call
DetailsAgain ==
    /\ gd_pc = "done"
    /\ gd_pc' = "start"
    /\ gd_order_id' \in {"", "1"}
    /\ gd_response' = NoResponse
    /\ gd_return' = EmptyDict

\* the client found no order: no order id, a failed request, or an empty answer
NoOrderFound ==
    \/ gd_order_id = ""
    \/ gd_response.http.raised
    \/ gd_response.http.status \notin 200..299
    \/ gd_response.body.items = <<>>

\* C23: get_order_details returns {"error": "Order not found", "order": None}
\* whenever the client finds no order (empty order id, failed request, absent
\* order), and otherwise a mapping with the converted order and no error key;
\* the call returns in every case.
C23_OrderNotFound ==
    gd_pc = "done" =>
        IF NoOrderFound
        THEN gd_return = [error |-> "Order not found", order |-> JsonNone]
        ELSE /\ "error" \notin DOMAIN gd_return
             /\ gd_return.order = _convert_cents(gd_response.body)
             /\ gd_return.order # JsonNone

\* a request for an order that failed, answered with a body
C23_Witness ==
    /\ gd_pc = "done"
    /\ gd_order_id # ""
    /\ gd_response.http.status = 500
    /\ gd_response.body.items # <<>>
    /\ "error" \in DOMAIN gd_return

\* an order with a price, returned converted
C23_WitnessFound ==
    /\ gd_pc = "done"
    /\ ~NoOrderFound
    /\ gd_return.order # gd_response.body

----------------------------------------------------------------------------
(* Carousel._extract_products_for_carousel *)

\* keys of a result mapping: products, and the keys the loop skips by name
ResultKeys == {"p1", "p2", "p3", "region_message"}

SkippedKeys == {"region_message", "carousel_sent", "carousel_items"}

\* a variation with and without the key sku_name
CarouselVariations == {[sku_id |-> "s1"], [sku_id |-> "s2", sku_name |-> "n2"]}

\* values of a result mapping: a text, a dict without the key variations, and
\* dicts with a list of variations
ResultValues ==
    {[t |-> "str"], [t |-> "dict"]}
        \cup {[t |-> "dict", variations |-> vs] : vs \in SeqUpTo(CarouselVariations, MaxVariations)}

\* result mappings in iteration order, each key once
ResultMappings ==
    {r \in SeqUpTo([key : ResultKeys, value : ResultValues], MaxResultKeys) :
        \A i, j \in 1..Len(r) : r[i].key = r[j].key => i = j}

\* the entries the loop does not skip
IsCarouselProduct(entry) ==
    /\ entry.key \notin SkippedKeys
    /\ entry.value.t = "dict"
    /\ "variations" \in DOMAIN entry.value
    /\ entry.value.variations # <<>>

\* product_data of one entry, built from its first variation
ProductData(entry) ==
    LET first_variation == entry.value.variations[1]
    IN  [name |-> IF "sku_name" \in DOMAIN first_variation
                  THEN first_variation.sku_name ELSE entry.key,
         sku_id |-> first_variation.sku_id]

\* the loop from entry i on: the length test follows the append
RECURSIVE ExtractFrom(_, _, _, _)
ExtractFrom(result, i, products_data, max_items) ==
    IF i > Len(result) THEN products_data
    ELSE IF ~IsCarouselProduct(result[i])
         THEN ExtractFrom(result, i + 1, products_data, max_items)
         ELSE LET appended == Append(products_data, ProductData(result[i]))
              IN  IF Len(appended) >= max_items THEN appended
                  ELSE ExtractFrom(result, i + 1, appended, max_items)

_extract_products_for_carousel(result, max_items) ==
    ExtractFrom(result, 1, <<>>, max_items)

CarouselInit ==
    /\ cr_pc = "start"
    /\ cr_result \in ResultMappings
    /\ cr_max_items \in 0..MaxCarousel
    /\ cr_products = <<>>

CarouselIdle ==
    /\ cr_pc = "start"
    /\ cr_result = <<>>
    /\ cr_max_items = 0
    /\ cr_products = <<>>

\* one call of _extract_products_for_carousel
ExtractProducts ==
    /\ cr_pc = "start"
    /\ cr_pc' = "done"
    /\ cr_products' = _extract_products_for_carousel(cr_result, cr_max_items)
    /\ UNCHANGED <<cr_result, cr_max_items>>

\* the same result handed to a Carousel built with another max_items
CarouselAgain ==
    /\ cr_pc = "done"
    /\ cr_pc' = "start"
    /\ cr_max_items' \in 0..MaxCarousel
    /\ cr_products' = <<>>
    /\ UNCHANGED cr_result

\* product_data of every product of the result, in iteration order
AllProductData(result) ==
    LET products == SelectSeq(result, IsCarouselProduct)
    IN  [i \in 1..Len(products) |-> ProductData(products[i])]

\* C24: the carousel never holds more than max_items products: for every
\* result mapping and every max_items >= 0 the extraction returns at most
\* max_items entries, one per product (its first variation), in the iteration
\* order of the result.
C24_AtMostMaxItems ==
    cr_pc = "done" =>
        /\ Len(cr_products) <= cr_max_items
        /\ Len(cr_products) <= Len(AllProductData(cr_result))
        /\ cr_products = SubSeq(AllProductData(cr_result), 1, Len(cr_products))

\* the entries are the first products in order, whatever their number
C24_FirstProductsInOrder ==
    cr_pc = "done" =>
        /\ Len(cr_products) <= Len(AllProductData(cr_result))
        /\ cr_products = SubSeq(AllProductData(cr_result), 1, Len(cr_products))
        /\ cr_max_items >= 1 => Len(cr_products) <= cr_max_items

\* a carousel cut at max_items products
C24_Witness ==
    /\ cr_pc = "done"
    /\ cr_max_items >= 1
    /\ Len(cr_products) = cr_max_items
    /\ Len(AllProductData(cr_result)) > cr_max_items

----------------------------------------------------------------------------
(* Regionalization.after_search *)

\* the message stored under delivery_type_required, shortened
MsgDeliveryTypeRequired == "delivery type required"

\* self.seller_rules of the plugin: none, an empty and a filled mooca_sellers,
\* and rules without mooca_sellers
AfterRules ==
    { NoDict,
      [mooca_sellers |-> <<>>],
      [mooca_sellers |-> <<"a", "b">>, retirada_sellers |-> <<"a">>],
      [retirada_sellers |-> <<"a">>] }

\* product mappings in iteration order: a product without the key categories,
\* one of another category and one of the category "c"
AfterProducts ==
    LET plain == [product_name |-> "p0", product_data |-> [description |-> "d"]]
        other == [product_name |-> "p1",
                  product_data |-> [description |-> "d", categories |-> << <<"x">> >>]]
        prio  == [product_name |-> "p2",
                  product_data |-> [description |-> "d", categories |-> << <<"c">> >>]]
    IN  { <<>>, <<plain>>, <<other>>, <<prio>>, <<other, prio>> }

AfterContexts ==
    [delivery_type : {"None", "", "Retirada"},
     sellers : {<<>>, <<"a">>, <<"a", "c">>},
     extra_data : {NoDict, [region_message |-> "m"], [delivery_type_required |-> "old"]}]

\* the loop over products.items()
HasPriority_always(products, priority_categories) == TRUE
HasPriority(products, priority_categories) ==
    \E i \in DOMAIN products :
        _is_priority_category(Get(products[i].product_data, "categories", <<>>),
                              priority_categories)

\* `not context.delivery_type`
DeliveryTypeMissing(context) == context.delivery_type \in {"None", ""}

\* `mooca_sellers and all(s in mooca_sellers for s in context.sellers)`
AllMoocaSellers(seller_rules, sellers) ==
    LET mooca_sellers == Get(seller_rules, "mooca_sellers", <<>>)
    IN  /\ mooca_sellers # <<>>
        /\ \A i \in DOMAIN sellers :
              \E j \in DOMAIN mooca_sellers : sellers[i] = mooca_sellers[j]

\* the context after after_search
after_search_context(plugin, products, context) ==
    IF ~plugin.require_delivery_type_for_priority THEN context
    ELSE IF products = <<>> THEN context
    ELSE IF /\ HasPriority(products, plugin.priority_categories)
            /\ DeliveryTypeMissing(context)
            /\ AllMoocaSellers(plugin.seller_rules, context.sellers)
         THEN [context EXCEPT
                 !.extra_data = DictSet(@, "delivery_type_required",
                                        MsgDeliveryTypeRequired)]
         ELSE context

AfterInit ==
    /\ af_pc = "start"
    /\ af_plugin \in [require_delivery_type_for_priority : BOOLEAN,
                      priority_categories : PriorityLists,
                      seller_rules : AfterRules]
    /\ af_products \in AfterProducts
    /\ af_context \in AfterContexts
    /\ af_return = <<>>

AfterIdle ==
    /\ af_pc = "start"
    /\ af_plugin = [require_delivery_type_for_priority |-> FALSE,
                    priority_categories |-> <<>>, seller_rules |-> NoDict]
    /\ af_products = <<>>
    /\ af_context = [delivery_type |-> "None", sellers |-> <<>>, extra_data |-> NoDict]
    /\ af_return = <<>>

\* Regionalization.after_search: the products are returned as they came
after_search ==
    /\ af_pc = "start"
    /\ af_pc' = "done"
    /\ af_context' = after_search_context(af_plugin, af_products, af_context)
    /\ af_return' = af_products
    /\ UNCHANGED <<af_plugin, af_products>>

\* the next search of the same plugin, with a fresh context
AfterAgain ==
    /\ af_pc = "done"
    /\ af_pc' = "start"
    /\ af_context' \in AfterContexts
    /\ af_return' = <<>>
    /\ UNCHANGED <<af_plugin, af_products>>

\* C26: after_search never removes or alters a product: it returns the product
\* mapping it received in every case, and its only effect is to add the key
\* delivery_type_required to context.extra_data, which happens only when
\* require_delivery_type_for_priority is set, some product has a priority
\* category, context.delivery_type is missing, and mooca_sellers is non-empty
\* and contains every seller of context.sellers.
C26_AfterSearchFrame ==
    [][ (af_pc = "start" /\ af_pc' = "done") =>
          /\ af_return' = af_products
          /\ af_products' = af_products
          /\ af_plugin' = af_plugin
          /\ \/ af_context' = af_context
             \/ /\ af_context' =
                      [af_context EXCEPT
                         !.extra_data = DictSet(@, "delivery_type_required",
                                                MsgDeliveryTypeRequired)]
                /\ af_plugin.require_delivery_type_for_priority
                /\ \E i \in DOMAIN af_products :
                      /\ "categories" \in DOMAIN af_products[i].product_data
                      /\ { af_products[i].product_data.categories[c] :
                             c \in DOMAIN af_products[i].product_data.categories }
                           \cap { af_plugin.priority_categories[j] :
                                    j \in DOMAIN af_plugin.priority_categories } # {}
                /\ af_context.delivery_type \in {"None", ""}
                /\ "mooca_sellers" \in DOMAIN af_plugin.seller_rules
                /\ af_plugin.seller_rules.mooca_sellers # <<>>
                /\ { af_context.sellers[i] : i \in DOMAIN af_context.sellers }
                     \subseteq { af_plugin.seller_rules.mooca_sellers[j] :
                                   j \in DOMAIN af_plugin.seller_rules.mooca_sellers }
      ]_after_vars

\* a search that ended with the key added beside an entry already there
C26_Witness ==
    /\ af_pc = "done"
    /\ af_return = af_products
    /\ af_context.sellers # <<>>
    /\ DOMAIN af_context.extra_data = {"region_message", "delivery_type_required"}
    /\ af_context.extra_data.delivery_type_required = MsgDeliveryTypeRequired

----------------------------------------------------------------------------
(* CAPI.finalize_result, two pipeline invocations on one shared instance *)
(* The instance is built with the defaults auto_send = True and only_whatsapp *)
(* = True. The read of _sent, the send and the write of _sent are separate   *)
(* steps of an invocation; the instance has no lock.                          *)

Invocations == {1, 2}

\* an invocation is between its read of _sent and its write of it
InFlight(p) == rc_pc[p] \in {"send", "write"}

RaceInit ==
    /\ rc_sent = FALSE
    /\ rc_pc = [p \in Invocations |-> "idle"]
    /\ rc_success = [p \in Invocations |-> FALSE]
    /\ rc_started = 0
    /\ rc_successes = 0
    /\ rc_overlap = FALSE

RaceIdle ==
    /\ rc_sent = FALSE
    /\ rc_pc = [p \in Invocations |-> "idle"]
    /\ rc_success = [p \in Invocations |-> FALSE]
    /\ rc_started = 0
    /\ rc_successes = 0
    /\ rc_overlap = FALSE

\* `if self._sent: return result`
RaceRead(p) ==
    /\ rc_pc[p] = "idle"
    /\ rc_started < MaxInvocations
    /\ rc_started' = rc_started + 1
    /\ rc_pc' = [rc_pc EXCEPT ![p] = IF rc_sent THEN "done" ELSE "send"]
    /\ rc_overlap' = (rc_overlap \/ \E q \in Invocations \ {p} : InFlight(q))
    /\ UNCHANGED <<rc_sent, rc_success, rc_successes>>

\* the WhatsApp test and send_event
RaceSend(p) ==
    /\ rc_pc[p] = "send"
    /\ \E ctx \in CapiContexts, http \in HttpOutcomes :
          IF CAPI_not_whatsapp(TRUE, ctx.urn)
          THEN /\ rc_pc' = [rc_pc EXCEPT ![p] = "done"]
               /\ UNCHANGED <<rc_success, rc_successes>>
          ELSE LET sent == CAPI_send_event(PyOr(ctx.cred_token, ctx.contact_token),
                                           ctx.channel_uuid, ctx.urn, "lead", http)
               IN  /\ rc_pc' = [rc_pc EXCEPT ![p] = "write"]
                   /\ rc_success' = [rc_success EXCEPT ![p] = sent.success]
                   /\ rc_successes' = rc_successes + (IF sent.success THEN 1 ELSE 0)
    /\ UNCHANGED <<rc_sent, rc_started, rc_overlap>>

\* `if success: self._sent = True`
RaceWrite(p) ==
    /\ rc_pc[p] = "write"
    /\ rc_sent' = CAPI_sent_after(rc_sent, rc_success[p])
    /\ rc_pc' = [rc_pc EXCEPT ![p] = "done"]
    /\ rc_success' = [rc_success EXCEPT ![p] = FALSE]
    /\ UNCHANGED <<rc_started, rc_successes, rc_overlap>>

\* finalize_result returns; the pipeline may call it again
RaceReturn(p) ==
    /\ rc_pc[p] = "done"
    /\ rc_pc' = [rc_pc EXCEPT ![p] = "idle"]
    /\ UNCHANGED <<rc_sent, rc_success, rc_started, rc_successes, rc_overlap>>

\* reset(): rc_successes and rc_overlap count from the last reset on; calls
\* that are in flight together at the reset still overlap after it
RaceReset ==
    /\ rc_sent' = FALSE
    /\ rc_successes' = 0
    /\ rc_overlap' = (\E p, q \in Invocations : p # q /\ InFlight(p) /\ InFlight(q))
    /\ UNCHANGED <<rc_pc, rc_success, rc_started>>

RaceReadAny == \E p \in Invocations : RaceRead(p)
RaceSendAny == \E p \in Invocations : RaceSend(p)
RaceWriteAny == \E p \in Invocations : RaceWrite(p)
RaceReturnAny == \E p \in Invocations : RaceReturn(p)

\* C28 as stated: at most one send succeeds between two resets, also when two
\* invocations interleave their finalize_result calls on one shared instance.
C28_OneShotInterleaved == rc_successes <= 1

\* C28 (amended): at most one send succeeds between two resets as long as no
\* finalize_result call on the instance reads the sent flag while another call
\* is between its read and its write of the flag; when calls overlap in that
\* way, each of them can send successfully.
C28_OneShotWhenSerialized == ~rc_overlap => rc_successes <= 1

\* two calls one after the other: the first sent, the second found the flag set
C28_Witness ==
    /\ ~rc_overlap
    /\ rc_started = 2
    /\ rc_successes = 1
    /\ rc_sent
    /\ \A p \in Invocations : rc_pc[p] = "done"

----------------------------------------------------------------------------
(* Specifications *)

vars == <<capi_vars, flow_vars, stock_vars, payload_vars, region_vars, batch_vars,
         cart_vars, orders_vars, client_vars, hooks_vars, pipeline_vars, wholesale_vars, cents_vars, details_vars, carousel_vars, after_vars, race_vars>>

InitCapi == CapiInit /\ FlowIdle /\ StockIdle /\ PayloadIdle /\ RegionIdle /\ BatchIdle /\ CartIdle /\ OrdersIdle /\ ClientIdle /\ HooksIdle /\ PipelineIdle /\ WholesaleIdle /\ CentsIdle /\ DetailsIdle /\ CarouselIdle /\ AfterIdle /\ RaceIdle

capi_others == <<flow_vars, stock_vars, payload_vars, region_vars, batch_vars, cart_vars, orders_vars, client_vars, hooks_vars, pipeline_vars, wholesale_vars, cents_vars, details_vars, carousel_vars, after_vars, race_vars>>

NextCapi ==
    \/ CapiFinalize /\ UNCHANGED capi_others
    \/ CAPI_reset /\ UNCHANGED capi_others

SpecCapi == InitCapi /\ [][NextCapi]_vars

InitFlow == FlowInit /\ CapiIdle /\ StockIdle /\ PayloadIdle /\ RegionIdle /\ BatchIdle /\ CartIdle /\ OrdersIdle /\ ClientIdle /\ HooksIdle /\ PipelineIdle /\ WholesaleIdle /\ CentsIdle /\ DetailsIdle /\ CarouselIdle /\ AfterIdle /\ RaceIdle

flow_others == <<capi_vars, stock_vars, payload_vars, region_vars, batch_vars, cart_vars, orders_vars, client_vars, hooks_vars, pipeline_vars, wholesale_vars, cents_vars, details_vars, carousel_vars, after_vars, race_vars>>

NextFlow ==
    \/ FlowFinalize /\ UNCHANGED flow_others
    \/ WeniFlowTrigger_reset /\ UNCHANGED flow_others

SpecFlow == InitFlow /\ [][NextFlow]_vars

InitStock == StockInit /\ CapiIdle /\ FlowIdle /\ PayloadIdle /\ RegionIdle /\ BatchIdle /\ CartIdle /\ OrdersIdle /\ ClientIdle /\ HooksIdle /\ PipelineIdle /\ WholesaleIdle /\ CentsIdle /\ DetailsIdle /\ CarouselIdle /\ AfterIdle /\ RaceIdle

stock_others == <<capi_vars, flow_vars, payload_vars, region_vars, batch_vars, cart_vars, orders_vars, client_vars, hooks_vars, pipeline_vars, wholesale_vars, cents_vars, details_vars, carousel_vars, after_vars, race_vars>>

NextStock ==
    \/ CheckAvailabilitySimple /\ UNCHANGED stock_others
    \/ CheckAvailabilityWithSellers /\ UNCHANGED stock_others
    \/ BatchStep /\ UNCHANGED stock_others
    \/ FilterProductsWithStock /\ UNCHANGED stock_others

SpecStock == InitStock /\ [][NextStock]_vars

\* the stage of a search that has sellers and priority categories
InitSellers == CapiIdle /\ FlowIdle /\ SellersInit /\ PayloadIdle /\ RegionIdle /\ BatchIdle /\ CartIdle /\ OrdersIdle /\ ClientIdle /\ HooksIdle /\ PipelineIdle /\ WholesaleIdle /\ CentsIdle /\ DetailsIdle /\ CarouselIdle /\ AfterIdle /\ RaceIdle
NextSellers ==
    \/ CheckAvailabilityWithSellers /\ UNCHANGED stock_others
    \/ BatchStep /\ UNCHANGED stock_others
    \/ FilterProductsWithStock /\ UNCHANGED stock_others
SpecSellers == InitSellers /\ [][NextSellers]_vars

InitPayload == PayloadInit /\ CapiIdle /\ FlowIdle /\ StockIdle /\ RegionIdle /\ BatchIdle /\ CartIdle /\ OrdersIdle /\ ClientIdle /\ HooksIdle /\ PipelineIdle /\ WholesaleIdle /\ CentsIdle /\ DetailsIdle /\ CarouselIdle /\ AfterIdle /\ RaceIdle

payload_others == <<capi_vars, flow_vars, stock_vars, region_vars, batch_vars, cart_vars, orders_vars, client_vars, hooks_vars, pipeline_vars, wholesale_vars, cents_vars, details_vars, carousel_vars, after_vars, race_vars>>

NextPayload ==
    \/ LimitStart /\ UNCHANGED payload_others
    \/ LimitPop /\ UNCHANGED payload_others
    \/ LimitReturn /\ UNCHANGED payload_others

SpecPayload == InitPayload /\ [][NextPayload]_vars

\* limit_payload_size runs its loop to the end once called
SpecPayloadLive == InitPayload /\ [][NextPayload]_vars /\ WF_vars(NextPayload)

InitRegion == RegionInit /\ CapiIdle /\ FlowIdle /\ StockIdle /\ PayloadIdle /\ BatchIdle /\ CartIdle /\ OrdersIdle /\ ClientIdle /\ HooksIdle /\ PipelineIdle /\ WholesaleIdle /\ CentsIdle /\ DetailsIdle /\ CarouselIdle /\ AfterIdle /\ RaceIdle

region_others == <<capi_vars, flow_vars, stock_vars, payload_vars, batch_vars, cart_vars, orders_vars, client_vars, hooks_vars, pipeline_vars, wholesale_vars, cents_vars, details_vars, carousel_vars, after_vars, race_vars>>

NextRegion ==
    \/ BeforeSearch /\ UNCHANGED region_others
    \/ NewSearch /\ UNCHANGED region_others

SpecRegion == InitRegion /\ [][NextRegion]_vars

InitBatch == BatchInit /\ CapiIdle /\ FlowIdle /\ StockIdle /\ PayloadIdle /\ RegionIdle /\ CartIdle /\ OrdersIdle /\ ClientIdle /\ HooksIdle /\ PipelineIdle /\ WholesaleIdle /\ CentsIdle /\ DetailsIdle /\ CarouselIdle /\ AfterIdle /\ RaceIdle

batch_others == <<capi_vars, flow_vars, stock_vars, payload_vars, region_vars, cart_vars, orders_vars, client_vars, hooks_vars, pipeline_vars, wholesale_vars, cents_vars, details_vars, carousel_vars, after_vars, race_vars>>

NextBatch ==
    \/ batch_simulation /\ UNCHANGED batch_others
    \/ BatchAgain /\ UNCHANGED batch_others

SpecBatch == InitBatch /\ [][NextBatch]_vars

InitCart == CartInit /\ CapiIdle /\ FlowIdle /\ StockIdle /\ PayloadIdle /\ RegionIdle /\ BatchIdle /\ OrdersIdle /\ ClientIdle /\ HooksIdle /\ PipelineIdle /\ WholesaleIdle /\ CentsIdle /\ DetailsIdle /\ CarouselIdle /\ AfterIdle /\ RaceIdle

cart_others == <<capi_vars, flow_vars, stock_vars, payload_vars, region_vars, batch_vars, orders_vars, client_vars, hooks_vars, pipeline_vars, wholesale_vars, cents_vars, details_vars, carousel_vars, after_vars, race_vars>>

NextCart ==
    \/ CartSimulation /\ UNCHANGED cart_others
    \/ CartAgain /\ UNCHANGED cart_others

SpecCart == InitCart /\ [][NextCart]_vars

InitOrders == OrdersInit /\ CapiIdle /\ FlowIdle /\ StockIdle /\ PayloadIdle /\ RegionIdle /\ BatchIdle /\ CartIdle /\ ClientIdle /\ HooksIdle /\ PipelineIdle /\ WholesaleIdle /\ CentsIdle /\ DetailsIdle /\ CarouselIdle /\ AfterIdle /\ RaceIdle

orders_others == <<capi_vars, flow_vars, stock_vars, payload_vars, region_vars, batch_vars, cart_vars, client_vars, hooks_vars, pipeline_vars, wholesale_vars, cents_vars, details_vars, carousel_vars, after_vars, race_vars>>

NextOrders ==
    \/ get_orders_by_document /\ UNCHANGED orders_others
    \/ OrdersAgain /\ UNCHANGED orders_others

SpecOrders == InitOrders /\ [][NextOrders]_vars

InitClient == ClientInit /\ CapiIdle /\ FlowIdle /\ StockIdle /\ PayloadIdle /\ RegionIdle /\ BatchIdle /\ CartIdle /\ OrdersIdle /\ HooksIdle /\ PipelineIdle /\ WholesaleIdle /\ CentsIdle /\ DetailsIdle /\ CarouselIdle /\ AfterIdle /\ RaceIdle

client_others == <<capi_vars, flow_vars, stock_vars, payload_vars, region_vars, batch_vars, cart_vars, orders_vars, hooks_vars, pipeline_vars, wholesale_vars, cents_vars, details_vars, carousel_vars, after_vars, race_vars>>

NextClient ==
    \/ VTEXClient_init /\ UNCHANGED client_others

SpecClient == InitClient /\ [][NextClient]_vars

InitHooks == HooksInit /\ CapiIdle /\ FlowIdle /\ StockIdle /\ PayloadIdle /\ RegionIdle /\ BatchIdle /\ CartIdle /\ OrdersIdle /\ ClientIdle /\ PipelineIdle /\ WholesaleIdle /\ CentsIdle /\ DetailsIdle /\ CarouselIdle /\ AfterIdle /\ RaceIdle

hooks_others == <<capi_vars, flow_vars, stock_vars, payload_vars, region_vars, batch_vars, cart_vars, orders_vars, client_vars, pipeline_vars, wholesale_vars, cents_vars, details_vars, carousel_vars, after_vars, race_vars>>

NextHooks ==
    \/ DefaultHook /\ UNCHANGED hooks_others
    \/ HookAgain /\ UNCHANGED hooks_others

SpecHooks == InitHooks /\ [][NextHooks]_vars

InitPipeline == PipelineInit /\ CapiIdle /\ FlowIdle /\ StockIdle /\ PayloadIdle /\ RegionIdle /\ BatchIdle /\ CartIdle /\ OrdersIdle /\ ClientIdle /\ HooksIdle /\ WholesaleIdle /\ CentsIdle /\ DetailsIdle /\ CarouselIdle /\ AfterIdle /\ RaceIdle

pipeline_others == <<capi_vars, flow_vars, stock_vars, payload_vars, region_vars, batch_vars, cart_vars, orders_vars, client_vars, hooks_vars, wholesale_vars, cents_vars, details_vars, carousel_vars, after_vars, race_vars>>

NextPipeline ==
    \/ PipelineHook /\ UNCHANGED pipeline_others
    \/ PipelineStep /\ UNCHANGED pipeline_others
    \/ PipelineAgain /\ UNCHANGED pipeline_others

SpecPipeline == InitPipeline /\ [][NextPipeline]_vars

InitWholesale == WholesaleInit /\ CapiIdle /\ FlowIdle /\ StockIdle /\ PayloadIdle /\ RegionIdle /\ BatchIdle /\ CartIdle /\ OrdersIdle /\ ClientIdle /\ HooksIdle /\ PipelineIdle /\ CentsIdle /\ DetailsIdle /\ CarouselIdle /\ AfterIdle /\ RaceIdle

wholesale_others == <<capi_vars, flow_vars, stock_vars, payload_vars, region_vars, batch_vars, cart_vars, orders_vars, client_vars, hooks_vars, pipeline_vars, cents_vars, details_vars, carousel_vars, after_vars, race_vars>>

NextWholesale ==
    \/ _get_fixed_price /\ UNCHANGED wholesale_others
    \/ clear_cache /\ UNCHANGED wholesale_others

SpecWholesale == InitWholesale /\ [][NextWholesale]_vars

InitCents == CentsInit /\ CapiIdle /\ FlowIdle /\ StockIdle /\ PayloadIdle /\ RegionIdle /\ BatchIdle /\ CartIdle /\ OrdersIdle /\ ClientIdle /\ HooksIdle /\ PipelineIdle /\ WholesaleIdle /\ DetailsIdle /\ CarouselIdle /\ AfterIdle /\ RaceIdle

cents_others == <<capi_vars, flow_vars, stock_vars, payload_vars, region_vars, batch_vars, cart_vars, orders_vars, client_vars, hooks_vars, pipeline_vars, wholesale_vars, details_vars, carousel_vars, after_vars, race_vars>>

NextCents ==
    \/ ConvertCents /\ UNCHANGED cents_others

SpecCents == InitCents /\ [][NextCents]_vars

InitDetails == DetailsInit /\ CapiIdle /\ FlowIdle /\ StockIdle /\ PayloadIdle /\ RegionIdle /\ BatchIdle /\ CartIdle /\ OrdersIdle /\ ClientIdle /\ HooksIdle /\ PipelineIdle /\ WholesaleIdle /\ CentsIdle /\ CarouselIdle /\ AfterIdle /\ RaceIdle

details_others == <<capi_vars, flow_vars, stock_vars, payload_vars, region_vars, batch_vars, cart_vars, orders_vars, client_vars, hooks_vars, pipeline_vars, wholesale_vars, cents_vars, carousel_vars, after_vars, race_vars>>

NextDetails ==
    \/ get_order_details /\ UNCHANGED details_others
    \/ DetailsAgain /\ UNCHANGED details_others

SpecDetails == InitDetails /\ [][NextDetails]_vars

InitCarousel == CarouselInit /\ CapiIdle /\ FlowIdle /\ StockIdle /\ PayloadIdle /\ RegionIdle /\ BatchIdle /\ CartIdle /\ OrdersIdle /\ ClientIdle /\ HooksIdle /\ PipelineIdle /\ WholesaleIdle /\ CentsIdle /\ DetailsIdle /\ AfterIdle /\ RaceIdle

carousel_others == <<capi_vars, flow_vars, stock_vars, payload_vars, region_vars, batch_vars, cart_vars, orders_vars, client_vars, hooks_vars, pipeline_vars, wholesale_vars, cents_vars, details_vars, after_vars, race_vars>>

NextCarousel ==
    \/ ExtractProducts /\ UNCHANGED carousel_others
    \/ CarouselAgain /\ UNCHANGED carousel_others

SpecCarousel == InitCarousel /\ [][NextCarousel]_vars

InitAfter == AfterInit /\ CapiIdle /\ FlowIdle /\ StockIdle /\ PayloadIdle /\ RegionIdle /\ BatchIdle /\ CartIdle /\ OrdersIdle /\ ClientIdle /\ HooksIdle /\ PipelineIdle /\ WholesaleIdle /\ CentsIdle /\ DetailsIdle /\ CarouselIdle /\ RaceIdle

after_others == <<capi_vars, flow_vars, stock_vars, payload_vars, region_vars, batch_vars, cart_vars, orders_vars, client_vars, hooks_vars, pipeline_vars, wholesale_vars, cents_vars, details_vars, carousel_vars, race_vars>>

NextAfter ==
    \/ after_search /\ UNCHANGED after_others
    \/ AfterAgain /\ UNCHANGED after_others

SpecAfter == InitAfter /\ [][NextAfter]_vars

InitRace == RaceInit /\ CapiIdle /\ FlowIdle /\ StockIdle /\ PayloadIdle /\ RegionIdle /\ BatchIdle /\ CartIdle /\ OrdersIdle /\ ClientIdle /\ HooksIdle /\ PipelineIdle /\ WholesaleIdle /\ CentsIdle /\ DetailsIdle /\ CarouselIdle /\ AfterIdle

race_others == <<capi_vars, flow_vars, stock_vars, payload_vars, region_vars, batch_vars, cart_vars, orders_vars, client_vars, hooks_vars, pipeline_vars, wholesale_vars, cents_vars, details_vars, carousel_vars, after_vars>>

NextRace ==
    \/ RaceReadAny /\ UNCHANGED race_others
    \/ RaceSendAny /\ UNCHANGED race_others
    \/ RaceWriteAny /\ UNCHANGED race_others
    \/ RaceReturnAny /\ UNCHANGED race_others
    \/ RaceReset /\ UNCHANGED race_others

SpecRace == InitRace /\ [][NextRace]_vars

====
